---- MODULE Spec2Model ----
(***************************************************************************)
(* State-machine model of the data-validation tab, the rule registry and   *)
(* the persistence hook of the "Data Alchemist" application.               *)
(*                                                                         *)
(* Text is modelled as a sequence of one-character strings, so that the    *)
(* conversions of the code (split, trim, parseInt, String, replace) are    *)
(* computed and not assumed.  A JavaScript value is a tagged record:       *)
(*   [t |-> "str", v |-> <<chars>>]   a string                             *)
(*   [t |-> "num", v |-> n]           a finite number                      *)
(*   [t |-> "nan"]                    NaN                                  *)
(*   [t |-> "arr", v |-> <<s1, ...>>] an array of strings                  *)
(* and an entity is a function from the field names it has to such values; *)
(* a field that is not in its DOMAIN is undefined.                         *)
(***************************************************************************)
EXTENDS Integers, Sequences, FiniteSets, TLC

----------------------------------------------------------------------------
(* Text helpers *)

DigitChars == {"0", "1", "2", "3", "4", "5", "6", "7", "8", "9"}

HexChars == DigitChars \cup {"a", "b", "c", "d", "e", "f", "A", "B", "C", "D", "E", "F"}

DigitVal(c) ==
    CASE c = "0" -> 0 [] c = "1" -> 1 [] c = "2" -> 2 [] c = "3" -> 3
      [] c = "4" -> 4 [] c = "5" -> 5 [] c = "6" -> 6 [] c = "7" -> 7
      [] c = "8" -> 8 [] c = "9" -> 9

DigitChar(d) ==
    CASE d = 0 -> "0" [] d = 1 -> "1" [] d = 2 -> "2" [] d = 3 -> "3"
      [] d = 4 -> "4" [] d = 5 -> "5" [] d = 6 -> "6" [] d = 7 -> "7"
      [] d = 8 -> "8" [] d = 9 -> "9"

StrV(s) == [t |-> "str", v |-> s]

NumV(n) == [t |-> "num", v |-> n]

NaNV == [t |-> "nan"]

ArrV(a) == [t |-> "arr", v |-> a]

\* String.prototype.trim
RECURSIVE TrimLeft(_)
TrimLeft(s) == IF s # <<>> /\ Head(s) = " " THEN TrimLeft(Tail(s)) ELSE s

RECURSIVE TrimRight(_)
TrimRight(s) ==
    IF s # <<>> /\ s[Len(s)] = " " THEN TrimRight(SubSeq(s, 1, Len(s) - 1)) ELSE s

Trim(s) == TrimRight(TrimLeft(s))

\* String.prototype.split(sep) for a one-character separator: "" gives [""]
RECURSIVE SplitAcc(_, _, _)
SplitAcc(s, sep, cur) ==
    IF s = <<>> THEN <<cur>>
    ELSE IF Head(s) = sep THEN <<cur>> \o SplitAcc(Tail(s), sep, <<>>)
    ELSE SplitAcc(Tail(s), sep, Append(cur, Head(s)))

Split(s, sep) == SplitAcc(s, sep, <<>>)

MapTrim(a) == [i \in 1..Len(a) |-> Trim(a[i])]

\* .filter(Boolean) on an array of strings drops the empty ones
NonEmptyStr(s) == s # <<>>

FilterBoolean(a) == SelectSeq(a, NonEmptyStr)

\* Array.prototype.join(sep), sep a text
RECURSIVE Join(_, _)
Join(a, sep) ==
    IF a = <<>> THEN <<>>
    ELSE IF Len(a) = 1 THEN a[1]
    ELSE a[1] \o sep \o Join(Tail(a), sep)

\* s.replace(/\D/g, '')
IsDigit(c) == c \in DigitChars

StripNonDigits(s) == SelectSeq(s, IsDigit)

\* s.replace(/[\[\]]/g, '')
NotBracket(c) == c \notin {"[", "]"}

StripBrackets(s) == SelectSeq(s, NotBracket)

\* the longest prefix of digits
RECURSIVE DigitPrefix(_)
DigitPrefix(s) ==
    IF s # <<>> /\ IsDigit(Head(s)) THEN <<Head(s)>> \o DigitPrefix(Tail(s)) ELSE <<>>

RECURSIVE DigitsValue(_, _)
DigitsValue(s, acc) ==
    IF s = <<>> THEN acc ELSE DigitsValue(Tail(s), 10 * acc + DigitVal(Head(s)))

AllDigits(s) == s # <<>> /\ \A i \in 1..Len(s) : IsDigit(s[i])

\* parseInt(s, 10): leading blanks skipped, an optional sign, then the longest
\* run of digits; NaN when there is none
ParseInt(s) ==
    LET t == TrimLeft(s)
        signed == t # <<>> /\ Head(t) \in {"-", "+"}
        body == IF signed THEN Tail(t) ELSE t
        ds == DigitPrefix(body)
    IN  IF ds = <<>> THEN NaNV
        ELSE NumV(IF signed /\ Head(t) = "-" THEN 0 - DigitsValue(ds, 0)
                  ELSE DigitsValue(ds, 0))

\* String(n) of an integer
RECURSIVE NatToStr(_)
NatToStr(n) ==
    IF n < 10 THEN <<DigitChar(n)>> ELSE NatToStr(n \div 10) \o <<DigitChar(n % 10)>>

IntToStr(n) == IF n < 0 THEN <<"-">> \o NatToStr(0 - n) ELSE NatToStr(n)

RECURSIVE HexValue(_, _)
HexValue(s, acc) ==
    IF s = <<>> THEN acc
    ELSE LET c == Head(s)
             d == CASE c \in DigitChars -> DigitVal(c)
                    [] c \in {"a", "A"} -> 10 [] c \in {"b", "B"} -> 11
                    [] c \in {"c", "C"} -> 12 [] c \in {"d", "D"} -> 13
                    [] c \in {"e", "E"} -> 14 [] c \in {"f", "F"} -> 15
         IN  HexValue(Tail(s), 16 * acc + d)

\* Number(s) of a string, over the characters of the model (no ".", no exponent,
\* no "Infinity"): blank is 0, a signed decimal or an unsigned hexadecimal literal
\* is its value, anything else is NaN
NumberOfStr(s) ==
    LET t == Trim(s)
        signed == t # <<>> /\ Head(t) \in {"-", "+"}
        body == IF signed THEN Tail(t) ELSE t
    IN  IF t = <<>> THEN NumV(0)
        ELSE IF AllDigits(body)
             THEN NumV(IF signed /\ Head(t) = "-" THEN 0 - DigitsValue(body, 0)
                       ELSE DigitsValue(body, 0))
        ELSE IF /\ Len(t) >= 3
                /\ t[1] = "0"
                /\ t[2] \in {"x", "X"}
                /\ \A i \in 3..Len(t) : t[i] \in HexChars
             THEN NumV(HexValue(SubSeq(t, 3, Len(t)), 0))
        ELSE NaNV

\* /^\d+-\d+$/.test(s)
IsRangeText(s) ==
    \E k \in 1..Len(s) :
        /\ s[k] = "-"
        /\ AllDigits(SubSeq(s, 1, k - 1))
        /\ AllDigits(SubSeq(s, k + 1, Len(s)))

----------------------------------------------------------------------------
(* JavaScript value helpers *)

Undef == [t |-> "undefined"]

\* item[field]: undefined when the entity has no such field
Get(e, f) == IF f \in DOMAIN e THEN e[f] ELSE Undef

\* the truthiness of a value in a condition (x && ..., !x, x || ...)
Truthy(x) ==
    CASE x.t = "undefined" -> FALSE
      [] x.t = "nan" -> FALSE
      [] x.t = "num" -> x.v # 0
      [] x.t = "str" -> x.v # <<>>
      [] x.t = "arr" -> TRUE

\* ToNumber(x), as the relational operators apply it to a non-number operand
ToNumber(x) ==
    CASE x.t = "num" -> x
      [] x.t = "nan" -> NaNV
      [] x.t = "undefined" -> NaNV
      [] x.t = "str" -> NumberOfStr(x.v)
      [] x.t = "arr" -> NumberOfStr(Join(x.v, <<",">>))

\* x < n and x > n for a number literal n: false when x converts to NaN
LessThan(x, n) == LET y == ToNumber(x) IN y.t = "num" /\ y.v < n

GreaterThan(x, n) == LET y == ToNumber(x) IN y.t = "num" /\ y.v > n

\* String(x), as a template literal `${x}` gives it
ToText(x) ==
    CASE x.t = "str" -> x.v
      [] x.t = "num" -> IntToStr(x.v)
      [] x.t = "nan" -> <<"N", "a", "N">>
      [] x.t = "undefined" -> <<"u", "n", "d", "e", "f", "i", "n", "e", "d">>
      [] x.t = "arr" -> Join(x.v, <<",">>)

\* JSON.parse(s) succeeds.  Over the texts of the model: an empty object, an
\* empty array or a decimal integer parses, anything else throws
JsonParses(s) ==
    LET t == Trim(s)
    IN  \/ t \in {<<"{", "}">>, <<"[", "]">>}
        \/ AllDigits(t) /\ (Len(t) = 1 \/ t[1] # "0")

RECURSIVE Flatten(_)
Flatten(ss) == IF ss = <<>> THEN <<>> ELSE Head(ss) \o Flatten(Tail(ss))

\* the elements of a sequence in first-occurrence order, as iterating a Set
\* built from it visits them
RECURSIVE Dedupe(_, _)
Dedupe(s, seen) ==
    IF s = <<>> THEN <<>>
    ELSE IF Head(s) \in seen THEN Dedupe(Tail(s), seen)
    ELSE <<Head(s)>> \o Dedupe(Tail(s), seen \cup {Head(s)})

Range(s) == {s[i] : i \in 1..Len(s)}

----------------------------------------------------------------------------
(* validateAllData: the synchronous part, up to the collaborator call *)

GlobalId == StrV(<<"G", "l", "o", "b", "a", "l">>)

\* A ValidationError.  message is the fixed text of the template and the text
\* interpolated into it.  row is not a field of the code's record (its rowId is
\* always undefined): it records the position, in its collection, of the entity
\* whose iteration pushed the error (0 for the skill-coverage pass), so that
\* properties can speak of "the error of this entity".
Err(entityType, id, field, text, arg, row) ==
    [entityType |-> entityType, id |-> id, field |-> field,
     message |-> [text |-> text, arg |-> arg], row |-> row]

ErrSuggest(entityType, id, field, text, arg, row, suggestion) ==
    [entityType |-> entityType, id |-> id, field |-> field,
     message |-> [text |-> text, arg |-> arg], row |-> row,
     suggestion |-> suggestion]

\* Variant of AllTaskIds that indexes the first task only.
AllTaskIdsFirst(tasks) == {Get(tasks[i], "TaskID") : i \in 1..(IF Len(tasks) = 0 THEN 0 ELSE 1)}

\* new Set(tasks.map(t => t.TaskID))
AllTaskIds(tasks) == {Get(tasks[i], "TaskID") : i \in 1..Len(tasks)}

\* w.Skills || [] under flatMap: an array gives its elements, a non-empty string
\* gives itself as one element, anything falsy gives none
SkillList(e, f) ==
    LET x == Get(e, f)
    IN  CASE x.t = "arr" -> x.v
          [] x.t = "str" -> IF x.v = <<>> THEN <<>> ELSE <<x.v>>
          [] OTHER -> <<>>

\* new Set(workers.flatMap(w => w.Skills || []))
AllWorkerSkills(workers) ==
    Range(Flatten([i \in 1..Len(workers) |-> SkillList(workers[i], "Skills")]))

\* Variant of AllRequiredSkills that keeps repeated skills (an array where the
\* code builds a Set).
AllRequiredSkillsRaw(tasks) ==
    Flatten([i \in 1..Len(tasks) |-> SkillList(tasks[i], "RequiredSkills")])

\* new Set(tasks.flatMap(t => t.RequiredSkills || [])), in the order forEach
\* visits it
AllRequiredSkills(tasks) ==
    Dedupe(Flatten([i \in 1..Len(tasks) |-> SkillList(tasks[i], "RequiredSkills")]), {})

\* Variant of IdMissing that takes only undefined for missing (id === undefined
\* where the code has !id).
IdMissingStrict(id) == id.t = "undefined"

\* Variant of IdSeen that asks whether any id was seen at all (ids.size > 0
\* where the code has ids.has(id)).
IdSeenLoose(ids, id) == ids # {}

\* if (!id)
IdMissing(id) == ~Truthy(id)

\* else if (ids.has(id))
IdSeen(ids, id) == id \in ids

\* checkDuplicates: one forEach over items, ids the Set built so far
RECURSIVE CheckDuplicatesFrom(_, _, _, _, _)
CheckDuplicatesFrom(items, idKey, entityType, i, ids) ==
    IF i > Len(items) THEN <<>>
    ELSE LET id == Get(items[i], idKey)
             pushed ==
                 IF IdMissing(id)
                 THEN <<Err(entityType, Get(items[i], "id"), idKey,
                            "Required ID is missing.", <<>>, i)>>
                 ELSE IF IdSeen(ids, id)
                 THEN <<Err(entityType, id, idKey, "Duplicate ID found: ", ToText(id), i)>>
                 ELSE <<>>
         IN  pushed \o CheckDuplicatesFrom(items, idKey, entityType, i + 1, ids \cup {id})

CheckDuplicates(items, idKey, entityType) ==
    CheckDuplicatesFrom(items, idKey, entityType, 1, {})

\* c.PriorityLevel && (c.PriorityLevel < 1 || c.PriorityLevel > 5)
PriorityLevelBad(c) ==
    LET x == Get(c, "PriorityLevel")
    IN  Truthy(x) /\ (LessThan(x, 1) \/ GreaterThan(x, 5))

\* if (c.AttributesJSON) { try { JSON.parse(c.AttributesJSON) } catch { push } }
AttributesBad(c) ==
    LET x == Get(c, "AttributesJSON")
    IN  Truthy(x) /\ ~JsonParses(ToText(x))

\* !allTaskIds.has(tid)
TaskUnknown(allTaskIds, tid) == StrV(tid) \notin allTaskIds

\* x?.forEach / x?.some on a list field: nothing for undefined, the elements of
\* an array (a string has neither method: see ListCallThrows)
ListElems(e, f) ==
    LET x == Get(e, f) IN IF x.t = "arr" THEN x.v ELSE <<>>

\* x?.forEach(...) or x?.some(...) raises a TypeError when x is neither
\* undefined nor an array
ListCallThrows(e, f) == Get(e, f).t \notin {"undefined", "arr"}

ClientErrors(c, i, allTaskIds) ==
    LET cid == Get(c, "ClientID")
        req == ListElems(c, "RequestedTaskIDs")
    IN  (IF PriorityLevelBad(c)
         THEN <<Err("clients", cid, "PriorityLevel", "Must be between 1-5.", <<>>, i)>>
         ELSE <<>>)
        \o (IF AttributesBad(c)
            THEN <<Err("clients", cid, "AttributesJSON", "Invalid JSON format.", <<>>, i)>>
            ELSE <<>>)
        \o Flatten([k \in 1..Len(req) |->
                       IF TaskUnknown(allTaskIds, req[k])
                       THEN <<Err("clients", cid, "RequestedTaskIDs",
                                  "Unknown TaskID: ", req[k], i)>>
                       ELSE <<>>])

\* w.MaxLoadPerPhase && w.MaxLoadPerPhase < 0
MaxLoadBad(w) ==
    LET x == Get(w, "MaxLoadPerPhase") IN Truthy(x) /\ LessThan(x, 0)

\* w.MaxConcurrent && w.MaxConcurrent < 1
MaxConcurrentBad(w) ==
    LET x == Get(w, "MaxConcurrent") IN Truthy(x) /\ LessThan(x, 1)

\* isNaN(Number(s))
SlotNotNumeric(s) == NumberOfStr(s).t = "nan"

\* w.AvailableSlots?.some(s => isNaN(Number(s)))
SlotsBad(w) ==
    LET a == ListElems(w, "AvailableSlots")
    IN  \E k \in 1..Len(a) : SlotNotNumeric(a[k])

\* Variant of SlotsSuggestion that joins with "," (join(',') where the code has
\* join(', ')).
SlotsSuggestionTight(w) ==
    LET a == ListElems(w, "AvailableSlots")
    IN  Join([k \in 1..Len(a) |-> StripNonDigits(a[k])], <<",">>)

\* w.AvailableSlots.map(s => String(s).replace(/\D/g, '')).join(', ')
SlotsSuggestion(w) ==
    LET a == ListElems(w, "AvailableSlots")
    IN  Join([k \in 1..Len(a) |-> StripNonDigits(a[k])], <<",", " ">>)

WorkerErrors(w, i) ==
    LET wid == Get(w, "WorkerID")
    IN  (IF MaxLoadBad(w)
         THEN <<Err("workers", wid, "MaxLoadPerPhase", "Cannot be negative.", <<>>, i)>>
         ELSE <<>>)
        \o (IF MaxConcurrentBad(w)
            THEN <<Err("workers", wid, "MaxConcurrent", "Must be at least 1.", <<>>, i)>>
            ELSE <<>>)
        \o (IF SlotsBad(w)
            THEN <<ErrSuggest("workers", wid, "AvailableSlots",
                              "Contains non-numeric values.", <<>>, i, SlotsSuggestion(w))>>
            ELSE <<>>)

\* t.Duration && t.Duration < 1
DurationBad(t) ==
    LET x == Get(t, "Duration") IN Truthy(x) /\ LessThan(x, 1)

\* !allWorkerSkills.has(skill)
SkillUncovered(allWorkerSkills, skill) == skill \notin allWorkerSkills

\* Variant of PhaseElementBad that tests every element, whatever its type
\* (the regular expression applied to String(p)).
PhaseElementBadAny(p) == ~IsRangeText(IF p.t = "str" THEN p.v ELSE IntToStr(p.v))

\* typeof p === 'string' && !/^\d+-\d+$/.test(p), for an element that is a
\* number or a string
PhaseElementBad(p) == p.t = "str" /\ ~IsRangeText(p.v)

\* t.PreferredPhases?.some(p => typeof p === 'string' && !/^\d+-\d+$/.test(p)):
\* every element of an array in the store is a string
PhasesBad(t) ==
    LET a == ListElems(t, "PreferredPhases")
    IN  \E k \in 1..Len(a) : PhaseElementBad(StrV(a[k]))

TaskErrors(t, i, allWorkerSkills) ==
    LET tid == Get(t, "TaskID")
        req == ListElems(t, "RequiredSkills")
    IN  (IF DurationBad(t)
         THEN <<Err("tasks", tid, "Duration", "Must be at least 1.", <<>>, i)>>
         ELSE <<>>)
        \o Flatten([k \in 1..Len(req) |->
                       IF SkillUncovered(allWorkerSkills, req[k])
                       THEN <<Err("tasks", tid, "RequiredSkills",
                                  "No worker has the required skill: ", req[k], i)>>
                       ELSE <<>>])
        \o (IF PhasesBad(t)
            THEN <<Err("tasks", tid, "PreferredPhases",
                       "Invalid range format. Use \"start-end\".", <<>>, i)>>
            ELSE <<>>)

\* allRequiredSkills.forEach(skill => { if (!allWorkerSkills.has(skill)) push })
SkillCoverageErrors(allRequiredSkills, allWorkerSkills) ==
    Flatten([k \in 1..Len(allRequiredSkills) |->
                IF SkillUncovered(allWorkerSkills, allRequiredSkills[k])
                THEN <<Err("tasks", GlobalId, "Skill Coverage",
                           "Required by a task but not provided by any worker, the skill ",
                           allRequiredSkills[k], 0)>>
                ELSE <<>>])

ClientsPass(cs, allTaskIds) ==
    Flatten([i \in 1..Len(cs) |-> ClientErrors(cs[i], i, allTaskIds)])

WorkersPass(ws) == Flatten([i \in 1..Len(ws) |-> WorkerErrors(ws[i], i)])

TasksPass(ts, allWorkerSkills) ==
    Flatten([i \in 1..Len(ts) |-> TaskErrors(ts[i], i, allWorkerSkills)])

\* Variant of AllErrors that runs the per-client checks before the duplicate
\* scans.
AllErrorsClientsFirst(cs, ws, ts) ==
    ClientsPass(cs, AllTaskIds(ts))
    \o CheckDuplicates(cs, "ClientID", "clients")
    \o CheckDuplicates(ws, "WorkerID", "workers")
    \o CheckDuplicates(ts, "TaskID", "tasks")
    \o WorkersPass(ws)
    \o TasksPass(ts, AllWorkerSkills(ws))
    \o SkillCoverageErrors(AllRequiredSkills(ts), AllWorkerSkills(ws))

\* allErrors when the pass reaches the collaborator block (lines 370-483)
AllErrors(cs, ws, ts) ==
    CheckDuplicates(cs, "ClientID", "clients")
    \o CheckDuplicates(ws, "WorkerID", "workers")
    \o CheckDuplicates(ts, "TaskID", "tasks")
    \o ClientsPass(cs, AllTaskIds(ts))
    \o WorkersPass(ws)
    \o TasksPass(ts, AllWorkerSkills(ws))
    \o SkillCoverageErrors(AllRequiredSkills(ts), AllWorkerSkills(ws))

\* the pass raises before it publishes: a list method is called on a value
\* that has none
PassThrows(cs, ws, ts) ==
    \/ \E i \in 1..Len(cs) : ListCallThrows(cs[i], "RequestedTaskIDs")
    \/ \E i \in 1..Len(ws) : ListCallThrows(ws[i], "AvailableSlots")
    \/ \E i \in 1..Len(ts) :
          ListCallThrows(ts[i], "RequiredSkills") \/ ListCallThrows(ts[i], "PreferredPhases")

AdvisoryThreshold == 5

\* (c.RequestedTaskIDs?.length || 0)
RequestedCount(c) ==
    LET x == Get(c, "RequestedTaskIDs")
    IN  IF x.t \in {"arr", "str"} THEN Len(x.v) ELSE 0

\* c.PriorityLevel === 1 && (c.RequestedTaskIDs?.length || 0) > 5
IsHighPriority(c) ==
    Get(c, "PriorityLevel") = NumV(1) /\ RequestedCount(c) > AdvisoryThreshold

HighPriorityClients(cs) == SelectSeq(cs, IsHighPriority)

----------------------------------------------------------------------------
(* Inputs: the texts, the files and the cell edits the model draws from *)

C1 == <<"C", "1">>
C2 == <<"C", "2">>
W1 == <<"W", "1">>
T1 == <<"T", "1">>
T2 == <<"T", "2">>

\* uploaded rows after header mapping: field name -> cell text
ClientFileA ==
    << [ClientID |-> C1, PriorityLevel |-> <<"0">>, RequestedTaskIDs |-> T1],
       [ClientID |-> C1, PriorityLevel |-> <<"6">>,
        RequestedTaskIDs |-> T1 \o <<",", " ">> \o <<"T", "9">> \o <<",">> \o <<"T", "9">>] >>

ClientFileB ==
    << [ClientID |-> C2, PriorityLevel |-> <<"1">>, AttributesJSON |-> <<"{", "x">>,
        RequestedTaskIDs |-> T1 \o <<",">> \o T1 \o <<",">> \o T1 \o <<",">> \o T1
                             \o <<",">> \o T1 \o <<",">> \o T2] >>

ClientFileC ==
    << [ClientID |-> C1, PriorityLevel |-> <<"3">>, AttributesJSON |-> <<"{", "}">>],
       [ClientID |-> C1, PriorityLevel |-> <<"x">>],
       [ClientID |-> C1] >>

WorkerFileA ==
    << [WorkerID |-> W1, Skills |-> <<"a", ",", "b">>,
        AvailableSlots |-> <<"[", "1", ",", "x", "2", ",", "3", "]">>,
        MaxLoadPerPhase |-> <<"-", "1">>, MaxConcurrent |-> <<"0">>] >>

WorkerFileB ==
    << [WorkerID |-> W1, Skills |-> <<"a">>, AvailableSlots |-> <<"1", ",", "2">>,
        MaxLoadPerPhase |-> <<"0">>, MaxConcurrent |-> <<"1">>],
       [WorkerID |-> W1, AvailableSlots |-> <<"x">>] >>

TaskFileA ==
    << [TaskID |-> T1, RequiredSkills |-> <<"a", ",", "r">>,
        PreferredPhases |-> <<"1", "-", "2">>, Duration |-> <<"0">>],
       [TaskID |-> T2, RequiredSkills |-> <<"r", ",", "r">>,
        PreferredPhases |-> <<"[", "1", ",", "2", "]">>, Duration |-> <<"2">>] >>

TaskFileB ==
    << [TaskID |-> C1, RequiredSkills |-> <<"b">>, Duration |-> <<"-", "1">>] >>

\* two rows with one WorkerID, the second with a slot that is no number
WorkerFileC ==
    << [WorkerID |-> W1, AvailableSlots |-> <<"1">>],
       [WorkerID |-> W1, AvailableSlots |-> <<"x", "2">>] >>

\* (a workers file can be dropped on the clients zone: its rows have no ClientID
\* and are kept, since they have a WorkerID)
Files ==
    [clients |-> {ClientFileA, ClientFileB, ClientFileC, WorkerFileB},
     workers |-> {WorkerFileA, WorkerFileB},
     tasks   |-> {TaskFileA, TaskFileB}]

\* the cell edits: field and the text left in the input
CellEdits ==
    [clients |-> {<<"ClientID", C2>>, <<"PriorityLevel", <<"0">>>>},
     workers |-> {<<"AvailableSlots", <<"1", ",", " ", ",", " ", "3">>>>},
     tasks   |-> {<<"TaskID", <<>>>>}]

\* the collaborator's answers to the advisory prompt
AdvisoryTexts == { <<"o", "k">>, <<"a", "\n", "\n", "b">> }

EntityTypes == {"clients", "workers", "tasks"}

ListFields ==
    {"RequestedTaskIDs", "Skills", "RequiredSkills", "CoRunTaskIDs", "AvailableSlots",
     "PreferredPhases"}

NumericFields == {"PriorityLevel", "Duration", "MaxLoadPerPhase", "MaxConcurrent"}

----------------------------------------------------------------------------
(* Bounds *)

\* uploads and cell edits in one behaviour
MaxOps == 2

\* validation passes waiting for the collaborator, and handlers waiting for
\* their save to be acknowledged, at one time
MaxPending == 1

\* saveDataToFirestore calls between their getDocs and their commit at one time
MaxDrops == 2

----------------------------------------------------------------------------
(* State *)

VARIABLES
    clients, workers, tasks,  \* the three collections, in snapshot order
    errors, aiSuggestions,    \* what the last completed pass published
    pubStore,                 \* the collections that pass had read
    passes,                   \* passes waiting at await callGeminiAPI
    conts,                    \* handlers waiting at await saveData / saveSingleDoc
    ops,                      \* uploads and edits so far
    rules,                    \* the rule registry: the rules document and the rules prop
    conv,                     \* the translation in flight: the rules it closed over
    toast,                    \* the last toast of the rules tab
    convResp,                 \* what the translator last answered
    ruleOp,                   \* the last registry operation and its id; for an add,
                              \* the rules before it
    ruleOps,                  \* registry operations so far
    fixes,                    \* applyAIFix and handleNaturalLanguageModify calls waiting
                              \* at await callGeminiAPI, with the collections they hold
    dataToast,                \* the last toast of such a call
    fixDone,                  \* the call that ended last, and what the collaborator answered
    drops,                    \* saveDataToFirestore calls between getDocs and commit
    priorities,               \* the weights the tab is rendered with: the priorities prop
    prioritiesDoc,            \* the stored weights: the priorities document
    weightOp                  \* the last operation on the weights; for a preset, the
                              \* weights before it; for a slider change, the one before it

dataVars == <<clients, workers, tasks, errors, aiSuggestions, pubStore, passes, conts, ops>>

ruleVars == <<rules, conv, toast, convResp, ruleOp, ruleOps>>

otherVars == <<fixes, dataToast, fixDone, drops, priorities, prioritiesDoc, weightOp>>

vars == <<clients, workers, tasks, errors, aiSuggestions, pubStore, passes, conts, ops,
          rules, conv, toast, convResp, ruleOp, ruleOps,
          fixes, dataToast, fixDone, drops, priorities, prioritiesDoc, weightOp>>

Store(cs, ws, ts) == [clients |-> cs, workers |-> ws, tasks |-> ts]

CurrentStore == Store(clients, workers, tasks)

EmptyStore == Store(<<>>, <<>>, <<>>)

\* a field of the object the collaborator's answer parses to: undefined when
\* absent
AnswerField(answer, f) == IF f \in DOMAIN answer THEN answer[f] ELSE Undef

\* no call of applyAIFix or handleNaturalLanguageModify has ended yet
NoFix == [kind |-> "none"]

\* the collaborator's call failed: it rejected, or its answer is no JSON
Failure == [failure |-> TRUE]

\* `id_${Date.now()}_${random}`: k stands for the time and the random part
InternalId(k) == StrV(<<"i", "d", "_">> \o IntToStr(k))

\* the ids of the documents of a collection
DocIds(rows) == {Get(rows[i], "id") : i \in 1..Len(rows)}

IdsOf(S) ==
    {Get(S.clients[i], "id") : i \in 1..Len(S.clients)}
    \cup {Get(S.workers[i], "id") : i \in 1..Len(S.workers)}
    \cup {Get(S.tasks[i], "id") : i \in 1..Len(S.tasks)}

\* ids some part of the state still holds
UsedIds ==
    IdsOf(CurrentStore) \cup IdsOf(pubStore)
    \cup UNION {IdsOf(passes[i]) : i \in 1..Len(passes)}
    \cup UNION {IdsOf(conts[i]) : i \in 1..Len(conts)}
    \cup UNION {DocIds(drops[i].items) : i \in 1..Len(drops)}
    \cup UNION {IdsOf(fixes[i].store) : i \in 1..Len(fixes)}

\* generateUniqueId, n times: ids no part of the state holds.  Which ones is
\* immaterial (they are only compared), so the least unused numbers are taken.
RECURSIVE FreshFrom(_, _, _)
FreshFrom(k, n, used) ==
    IF n = 0 THEN <<>>
    ELSE IF InternalId(k) \in used THEN FreshFrom(k + 1, n, used)
    ELSE <<InternalId(k)>> \o FreshFrom(k + 1, n - 1, used)

GenerateUniqueIds(n) == FreshFrom(1, n, UsedIds)

----------------------------------------------------------------------------
(* onDrop: the row transformation *)

SplitList(text) == FilterBoolean(MapTrim(Split(text, ",")))

TransformCell(key, text) ==
    IF key \in {"RequestedTaskIDs", "Skills", "RequiredSkills", "CoRunTaskIDs"}
    THEN ArrV(SplitList(text))
    ELSE IF key \in {"AvailableSlots", "PreferredPhases"}
    THEN ArrV(SplitList(StripBrackets(text)))
    ELSE IF key \in NumericFields
    THEN ParseInt(text)
    ELSE StrV(text)

TransformRow(row, id) ==
    [f \in DOMAIN row \cup {"id"} |->
        IF f = "id" THEN id ELSE TransformCell(f, row[f])]

\* .filter(row => row.ClientID || row.WorkerID || row.TaskID)
RowKept(e) ==
    Truthy(Get(e, "ClientID")) \/ Truthy(Get(e, "WorkerID")) \/ Truthy(Get(e, "TaskID"))

TransformedData(file) ==
    LET ids == GenerateUniqueIds(Len(file))
    IN  SelectSeq([i \in 1..Len(file) |-> TransformRow(file[i], ids[i])], RowKept)

\* The snapshot lists a collection by document id, and the ids of one upload
\* differ only in their random part: any order of the rows can come back.
Orders(n) == {p \in [1..n -> 1..n] : \A i, j \in 1..n : p[i] = p[j] => i = j}

Reorder(rows, p) == [i \in 1..Len(rows) |-> rows[p[i]]]

----------------------------------------------------------------------------
(* validateAllData as a whole, and what it publishes *)

Published == [errors |-> errors, aiSuggestions |-> aiSuggestions,
              pubStore |-> pubStore, passes |-> passes]

\* One call of validateAllData over the collections S it closed over, up to
\* its first await: a raise publishes nothing; with no high-priority client
\* the pass runs to its end and publishes; otherwise it waits for the
\* collaborator with allErrors already computed from S.
StartPass(S, pub) ==
    IF PassThrows(S.clients, S.workers, S.tasks) THEN pub
    ELSE IF HighPriorityClients(S.clients) = <<>>
    THEN [errors |-> AllErrors(S.clients, S.workers, S.tasks),
          aiSuggestions |-> <<>>, pubStore |-> S, passes |-> pub.passes]
    ELSE [pub EXCEPT !.passes = Append(@, S)]

Publish(pub) ==
    /\ errors' = pub.errors
    /\ aiSuggestions' = pub.aiSuggestions
    /\ pubStore' = pub.pubStore
    /\ passes' = pub.passes

\* text.split('\n').filter(Boolean)
SuggestionLines(text) == FilterBoolean(Split(text, "\n"))

RemoveAt(s, k) == SubSeq(s, 1, k - 1) \o SubSeq(s, k + 1, Len(s))

\* callGeminiAPI resolves for pass k: setErrors(allErrors),
\* setAiSuggestions(the lines of the answer)
GeminiRespond(k, text) ==
    /\ k \in 1..Len(passes)
    /\ errors' = AllErrors(passes[k].clients, passes[k].workers, passes[k].tasks)
    /\ aiSuggestions' = SuggestionLines(text)
    /\ pubStore' = passes[k]
    /\ passes' = RemoveAt(passes, k)
    /\ UNCHANGED <<clients, workers, tasks, conts, ops>>
    /\ UNCHANGED <<ruleVars, otherVars>>

\* callGeminiAPI rejects for pass k: the catch block reports it, and the pass
\* publishes allErrors with no suggestions
GeminiFail(k) ==
    /\ k \in 1..Len(passes)
    /\ errors' = AllErrors(passes[k].clients, passes[k].workers, passes[k].tasks)
    /\ aiSuggestions' = <<>>
    /\ pubStore' = passes[k]
    /\ passes' = RemoveAt(passes, k)
    /\ UNCHANGED <<clients, workers, tasks, conts, ops>>
    /\ UNCHANGED <<ruleVars, otherVars>>

----------------------------------------------------------------------------
(* Mutations of the store *)

WithCollection(S, entityType, rows) == [S EXCEPT ![entityType] = rows]

\* The store changed to S: the snapshot listeners set the new arrays, the
\* component renders, and the effect calls the new validateAllData.  The
\* handler that saved holds prev, the arrays of the render it was created in,
\* and goes on after its await.
Commit(S, prev) ==
    /\ clients' = S.clients
    /\ workers' = S.workers
    /\ tasks' = S.tasks
    /\ conts' = Append(conts, prev)
    /\ ops' = ops + 1
    /\ Publish(IF S = CurrentStore THEN Published ELSE StartPass(S, Published))
    /\ UNCHANGED ruleVars

CanStart(S) == HighPriorityClients(S.clients) = <<>> \/ Len(passes) < MaxPending

\* onDrop then saveDataToFirestore: every document of the collection is
\* deleted and the transformed rows are set, in one batch
Upload(entityType, file, p) ==
    LET S == WithCollection(CurrentStore, entityType, Reorder(TransformedData(file), p))
    IN  /\ ops < MaxOps
        /\ Len(conts) < MaxPending
        /\ CanStart(S)
        /\ Commit(S, CurrentStore)
        /\ UNCHANGED otherVars

\* handleUpdateCell: the coercion of the edited text
CoerceCell(item, field, text) ==
    IF field \in ListFields
    THEN LET arrValue == SplitList(text)
         IN  IF Get(item, field).t = "str"
             THEN StrV(Join(arrValue, <<",", " ">>))
             ELSE ArrV(arrValue)
    ELSE IF field \in NumericFields
    THEN LET n == ParseInt(text)
         IN  StrV(IntToStr(IF n.t = "num" THEN n.v ELSE 0))
    ELSE StrV(text)

SetField(item, field, value) ==
    [f \in DOMAIN item \cup {field} |-> IF f = field THEN value ELSE item[f]]

\* setDoc(docRef, rest, {merge: true}) as the snapshot then shows it
Merge(old, item) ==
    [f \in DOMAIN old \cup DOMAIN item |-> IF f \in DOMAIN item THEN item[f] ELSE old[f]]

InsertAt(s, k, e) == SubSeq(s, 1, k - 1) \o <<e>> \o SubSeq(s, k, Len(s))

\* saveSingleDocToFirestore: the collections it can leave.  A document with
\* the item's id is merged in place; otherwise one is created, and the
\* snapshot lists it where its id sorts.
Upserted(rows, item) ==
    IF \E i \in 1..Len(rows) : Get(rows[i], "id") = Get(item, "id")
    THEN {[i \in 1..Len(rows) |->
              IF Get(rows[i], "id") = Get(item, "id") THEN Merge(rows[i], item) ELSE rows[i]]}
    ELSE {InsertAt(rows, k, item) : k \in 1..(Len(rows) + 1)}

HandleUpdateCell(entityType, rowIndex, field, text) ==
    LET dataSet == CurrentStore[entityType]
    IN  /\ ops < MaxOps
        /\ Len(conts) < MaxPending
        /\ rowIndex \in 1..Len(dataSet)
        /\ LET itemToUpdate == SetField(dataSet[rowIndex], field,
                                        CoerceCell(dataSet[rowIndex], field, text))
           IN  \E rows \in Upserted(dataSet, itemToUpdate) :
                   LET S == WithCollection(CurrentStore, entityType, rows)
                   IN  CanStart(S) /\ Commit(S, CurrentStore)
        /\ UNCHANGED otherVars

\* A handler goes on after its save: it calls the validateAllData of the
\* render it was created in, which reads that render's collections.
AfterSave(k) ==
    /\ k \in 1..Len(conts)
    /\ CanStart(conts[k])
    /\ conts' = RemoveAt(conts, k)
    /\ Publish(StartPass(conts[k], Published))
    /\ UNCHANGED <<clients, workers, tasks, ops>>
    /\ UNCHANGED <<ruleVars, otherVars>>

\* handleUpdateCell of the earlier version of the tab: a list field is stored
\* as the joined text, whatever it held before
CoerceCellEarlier(field, text) ==
    IF field \in ListFields
    THEN StrV(Join(SplitList(text), <<",">>))
    ELSE IF field \in NumericFields
    THEN LET n == ParseInt(text)
         IN  StrV(IntToStr(IF n.t = "num" THEN n.v ELSE 0))
    ELSE StrV(text)

\* The earlier version of the tab writes to the same collections: its edit of
\* a cell, seen by the current version through the snapshot.
HandleUpdateCellEarlier(entityType, rowIndex, field, text) ==
    LET dataSet == CurrentStore[entityType]
    IN  /\ ops < MaxOps
        /\ Len(conts) < MaxPending
        /\ rowIndex \in 1..Len(dataSet)
        /\ LET itemToUpdate == SetField(dataSet[rowIndex], field,
                                        CoerceCellEarlier(field, text))
           IN  \E rows \in Upserted(dataSet, itemToUpdate) :
                   LET S == WithCollection(CurrentStore, entityType, rows)
                   IN  CanStart(S) /\ Commit(S, CurrentStore)
        /\ UNCHANGED otherVars

----------------------------------------------------------------------------
(* applyAIFix and handleNaturalLanguageModify *)

\* what applyAIFix computes from 'clients' | 'workers' | 'tasks':
\* entityType.slice(0, -1).charAt(0).toUpperCase() + entityType.slice(1, -1) + 'ID'
FixIdKey(entityType) ==
    CASE entityType = "clients" -> "ClientID"
      [] entityType = "workers" -> "WorkerID"
      [] entityType = "tasks" -> "TaskID"

\* entityType.toLowerCase(), for the words the collaborator answers with
ToLowerCase(word) ==
    CASE word = "task" -> "task"
      [] word = "Worker" -> "worker"
      [] word = "TASK" -> "task"
      [] word = "tasks" -> "tasks"

\* entityMap[...]: undefined for a word that is no key
EntityMap(word) ==
    CASE word = "client" -> "clients"
      [] word = "worker" -> "workers"
      [] word = "task" -> "tasks"
      [] OTHER -> "undefined"

\* entityType.charAt(0).toUpperCase() + entityType.slice(1) + 'ID'
ModifyIdKey(word) ==
    CASE word = "task" -> "TaskID"
      [] word = "Worker" -> "WorkerID"
      [] word = "TASK" -> "TASKID"
      [] word = "tasks" -> "TasksID"

\* Variant of FindRow that falls back on the first row when no row has the id.
FindRowOrFirst(dataSet, idKey, id) ==
    IF \E i \in 1..Len(dataSet) : Get(dataSet[i], idKey) = id
    THEN CHOOSE i \in 1..Len(dataSet) :
             /\ Get(dataSet[i], idKey) = id
             /\ \A j \in 1..(i - 1) : Get(dataSet[j], idKey) # id
    ELSE IF dataSet = <<>> THEN 0 ELSE 1

\* dataSet.find(row => row[idKey] === id): the position of the first such row,
\* 0 when there is none
FindRow(dataSet, idKey, id) ==
    IF \E i \in 1..Len(dataSet) : Get(dataSet[i], idKey) = id
    THEN CHOOSE i \in 1..Len(dataSet) :
             /\ Get(dataSet[i], idKey) = id
             /\ \A j \in 1..(i - 1) : Get(dataSet[j], idKey) # id
    ELSE 0

\* Variant of CoerceFix that stores a list whatever the field held before, and
\* the parsed number itself.
CoerceFixPlain(item, field, validatedSuggestion) ==
    IF field \in ListFields
    THEN ArrV(SplitList(validatedSuggestion))
    ELSE IF field \in NumericFields
    THEN ParseInt(validatedSuggestion)
    ELSE StrV(validatedSuggestion)

\* applyAIFix: the coercion of the collaborator's text
CoerceFix(item, field, validatedSuggestion) ==
    IF field \in ListFields
    THEN LET arrValue == SplitList(validatedSuggestion)
         IN  IF Get(item, field).t = "str"
             THEN StrV(Join(arrValue, <<",", " ">>))
             ELSE ArrV(arrValue)
    ELSE IF field \in NumericFields
    THEN LET n == ParseInt(validatedSuggestion)
         IN  StrV(IntToStr(IF n.t = "num" THEN n.v ELSE 0))
    ELSE StrV(validatedSuggestion)

\* handleNaturalLanguageModify: the coercion of the answer's value (a text)
CoerceModify(item, field, value) ==
    IF field \in ListFields
    THEN IF Get(item, field).t = "str"
         THEN StrV(Join(SplitList(value), <<",", " ">>))
         ELSE ArrV(SplitList(value))
    ELSE IF field \in NumericFields
    THEN LET n == ParseInt(value)
         IN  StrV(IntToStr(IF n.t = "num" THEN n.v ELSE 0))
    ELSE StrV(value)

\* the texts the collaborator answers to applyAIFix's prompt: the suggestion
\* as it is, or another text
FixTexts(suggestion) == {suggestion, <<"7", "x">>}

\* what JSON.parse gives for the collaborator's answer to
\* handleNaturalLanguageModify's prompt
ModifyAnswers ==
    { [entityType |-> "task", id |-> StrV(T1), field |-> "Duration", value |-> <<"5">>],
      [entityType |-> "task", id |-> StrV(T1), field |-> "Duration"],
      [entityType |-> "task", field |-> "Duration", value |-> <<"5">>],
      [entityType |-> "Worker", id |-> StrV(<<"W", "9">>), field |-> "MaxConcurrent",
       value |-> <<"2">>],
      [entityType |-> "TASK", id |-> StrV(T1), field |-> "Duration", value |-> <<"5">>],
      [entityType |-> "tasks", id |-> StrV(T1), field |-> "Duration", value |-> <<"5">>] }

\* the Apply Fix button of the k-th listed error, shown when the error has a
\* non-empty suggestion: applyAIFix up to await callGeminiAPI
StartFix(k) ==
    /\ ops < MaxOps
    /\ Len(fixes) < MaxPending
    /\ k \in 1..Len(errors)
    /\ "suggestion" \in DOMAIN errors[k]
    /\ errors[k].suggestion # <<>>
    /\ fixes' = Append(fixes, [kind |-> "fix", entityType |-> errors[k].entityType,
                               id |-> errors[k].id, field |-> errors[k].field,
                               suggestion |-> errors[k].suggestion,
                               store |-> CurrentStore])
    /\ UNCHANGED <<dataVars, ruleVars, dataToast, fixDone, drops, priorities, prioritiesDoc, weightOp>>

\* The call cannot go on: it reports the failure and returns
FixReject(k, answer) ==
    /\ fixes' = RemoveAt(fixes, k)
    /\ fixDone' = [kind |-> fixes[k].kind, req |-> fixes[k], answer |-> answer]
    /\ dataToast' = "error"
    /\ UNCHANGED <<dataVars, ruleVars, drops, priorities, prioritiesDoc, weightOp>>

\* The call saves updatedItem with saveSingleDoc and goes on to validateAllData
FixSave(k, answer, entityType, updatedItem) ==
    /\ ops < MaxOps
    /\ Len(conts) < MaxPending
    /\ \E rows \in Upserted(CurrentStore[entityType], updatedItem) :
          LET S == WithCollection(CurrentStore, entityType, rows)
          IN  CanStart(S) /\ Commit(S, fixes[k].store)
    /\ fixes' = RemoveAt(fixes, k)
    /\ fixDone' = [kind |-> fixes[k].kind, req |-> fixes[k], answer |-> answer]
    /\ dataToast' = "success"
    /\ UNCHANGED <<drops, priorities, prioritiesDoc, weightOp>>

\* callGeminiAPI resolves with validatedSuggestion for the applyAIFix call k
FixRespond(k, validatedSuggestion) ==
    /\ k \in 1..Len(fixes)
    /\ fixes[k].kind = "fix"
    /\ LET r == fixes[k]
           dataSet == r.store[r.entityType]
           found == FindRow(dataSet, FixIdKey(r.entityType), r.id)
       IN  IF found = 0
           THEN FixReject(k, StrV(validatedSuggestion))
           ELSE FixSave(k, StrV(validatedSuggestion), r.entityType,
                        SetField(dataSet[found], r.field,
                                 CoerceFix(dataSet[found], r.field, validatedSuggestion)))

\* callGeminiAPI rejects for the call k (either handler): the catch block
FixFail(k) ==
    /\ k \in 1..Len(fixes)
    /\ FixReject(k, Failure)

\* the Modify button with a command typed: handleNaturalLanguageModify up to
\* await callGeminiAPI
StartModify ==
    /\ ops < MaxOps
    /\ Len(fixes) < MaxPending
    /\ fixes' = Append(fixes, [kind |-> "nl", store |-> CurrentStore])
    /\ UNCHANGED <<dataVars, ruleVars, dataToast, fixDone, drops, priorities, prioritiesDoc, weightOp>>

\* !entityType || !id || !field || value === undefined
ModifyRejected(answer) ==
    \/ "entityType" \notin DOMAIN answer
    \/ ~Truthy(AnswerField(answer, "id"))
    \/ "field" \notin DOMAIN answer
    \/ "value" \notin DOMAIN answer

\* callGeminiAPI resolves for the handleNaturalLanguageModify call k with a
\* text that parses to answer
ModifyRespond(k, answer) ==
    /\ k \in 1..Len(fixes)
    /\ fixes[k].kind = "nl"
    /\ IF ModifyRejected(answer) THEN FixReject(k, answer)
       ELSE LET mappedEntityType == EntityMap(ToLowerCase(answer.entityType))
            IN  IF mappedEntityType = "undefined" THEN FixReject(k, answer)
                ELSE LET dataSet == fixes[k].store[mappedEntityType]
                         found == FindRow(dataSet, ModifyIdKey(answer.entityType), answer.id)
                     IN  IF found = 0 THEN FixReject(k, answer)
                         ELSE FixSave(k, answer, mappedEntityType,
                                      SetField(dataSet[found], answer.field,
                                               CoerceModify(dataSet[found], answer.field,
                                                            answer.value)))

----------------------------------------------------------------------------
(* The rule registry (rules tab) *)

\* registry operations (add, update, delete, translate) in one behaviour
MaxRuleOps == 3

Idle == [state |-> "idle"]

\* afterAdd: the operation deletes the rule that the operation before it added
NoOp == [op |-> "none", id |-> Undef, before |-> <<>>, afterAdd |-> FALSE]

\* what JSON.parse gives for the translator's answer: an object that has, or
\* lacks, type and params
CO_RUN == StrV(<<"C", "O", "_", "R", "U", "N">>)

EXCLUSION == StrV(<<"E", "X", "C", "L", "U", "S", "I", "O", "N">>)

SEQUENTIAL == StrV(<<"S", "E", "Q", "U", "E", "N", "T", "I", "A", "L">>)

TranslatorAnswers ==
    { [type |-> CO_RUN, params |-> [taskIds |-> <<T1, T2>>]],
      [type |-> StrV(<<"U", "N", "K", "N", "O", "W", "N">>),
       params |-> [message |-> <<"?">>]],
      [type |-> StrV(<<>>), params |-> [taskIds |-> <<T1>>]],
      [type |-> EXCLUSION],
      [params |-> [taskIds |-> <<T1>>]] }

\* the texts typed in a rule's Task IDs input
TaskIdTexts == { <<>>, T1 \o <<",", " ">> \o T2 \o <<",">> }

CanonicalTypes == {CO_RUN, EXCLUSION, SEQUENTIAL}

RuleIds(rs) == {rs[i].id : i \in 1..Len(rs)}

\* generateUniqueId for a rule: an id no rule list of the state holds
NewRuleId ==
    LET used == RuleIds(rules) \cup RuleIds(ruleOp.before)
                \cup (IF conv = Idle THEN {} ELSE RuleIds(conv.rules))
    IN  FreshFrom(1, 1, used)[1]

\* onUpdate(newRules): saveConfigToFirestore('rules', newRules) replaces the
\* document, and the snapshot listener sets the rules prop to it
OnUpdate(newRules) == rules' = newRules

\* [...rules, { id, type, params: { taskIds: [] } }]
RulesAfterAdd(rs, id, type) ==
    Append(rs, [id |-> id, type |-> type, params |-> [taskIds |-> <<>>]])

\* rules.map(r => r.id === id ? { ...r, params: newParams } : r)
RulesAfterUpdate(rs, id, newParams) ==
    [i \in 1..Len(rs) |-> IF rs[i].id = id THEN [rs[i] EXCEPT !.params = newParams] ELSE rs[i]]

\* Variant of RulesAfterDelete that drops the last rule whatever the id
\* (rules.slice(0, -1) where the code filters by id).
RulesAfterDeleteLast(rs, id) == SubSeq(rs, 1, Len(rs) - 1)

\* rules.filter(r => r.id !== id)
RulesAfterDelete(rs, id) == SelectSeq(rs, LAMBDA r : r.id # id)

\* Variant of ShapeRejected that looks at type only (the earlier version of
\* the handler checks neither field).
ShapeRejectedTypeOnly(answer) == ~Truthy(AnswerField(answer, "type"))

\* !aiResponseJson.type || !aiResponseJson.params
ShapeRejected(answer) ==
    \/ ~Truthy(AnswerField(answer, "type"))
    \/ AnswerField(answer, "params") = Undef

\* [...rules, { id, type: aiResponseJson.type, params: aiResponseJson.params }]
RulesAfterConvert(rs, id, answer) ==
    Append(rs, [id |-> id, type |-> AnswerField(answer, "type"),
                params |-> AnswerField(answer, "params")])

\* the Add Co-run Rule button
AddRule(type) ==
    /\ ruleOps < MaxRuleOps
    /\ ruleOps' = ruleOps + 1
    /\ LET id == NewRuleId
       IN  /\ OnUpdate(RulesAfterAdd(rules, id, type))
           /\ ruleOp' = [op |-> "add", id |-> id, before |-> rules, afterAdd |-> FALSE]
    /\ UNCHANGED <<conv, toast, convResp>>
    /\ UNCHANGED <<dataVars, otherVars>>

\* the Task IDs input of a listed rule of a canonical type
UpdateRuleParams(id, text) ==
    /\ ruleOps < MaxRuleOps
    /\ ruleOps' = ruleOps + 1
    /\ \E i \in 1..Len(rules) : rules[i].id = id /\ rules[i].type \in CanonicalTypes
    /\ OnUpdate(RulesAfterUpdate(rules, id, [taskIds |-> SplitList(text)]))
    /\ ruleOp' = [op |-> "update", id |-> id, before |-> <<>>, afterAdd |-> FALSE]
    /\ UNCHANGED <<conv, toast, convResp>>
    /\ UNCHANGED <<dataVars, otherVars>>

\* the Delete button of a listed rule
DeleteRule(id) ==
    /\ ruleOps < MaxRuleOps
    /\ ruleOps' = ruleOps + 1
    /\ id \in RuleIds(rules)
    /\ OnUpdate(RulesAfterDelete(rules, id))
    /\ ruleOp' = [op |-> "delete", id |-> id, before |-> <<>>,
                  afterAdd |-> ruleOp.op = "add" /\ ruleOp.id = id]
    /\ UNCHANGED <<conv, toast, convResp>>
    /\ UNCHANGED <<dataVars, otherVars>>

\* handleNaturalLanguageConvert up to await generateRuleFromAI: the button is
\* disabled while a translation is in flight or the prompt is blank
StartConvert ==
    /\ ruleOps < MaxRuleOps
    /\ ruleOps' = ruleOps + 1
    /\ conv = Idle
    /\ conv' = [state |-> "converting", rules |-> rules]
    /\ UNCHANGED <<rules, toast, convResp, ruleOp>>
    /\ UNCHANGED <<dataVars, otherVars>>

\* generateRuleFromAI resolves with answer: a rejected shape is thrown to the
\* catch block; an accepted one is appended to the rules the handler closed over
ConvertRespond(answer) ==
    /\ conv # Idle
    /\ convResp' = answer
    /\ conv' = Idle
    /\ IF ShapeRejected(answer)
       THEN /\ toast' = "error"
            /\ UNCHANGED <<rules, ruleOp>>
       ELSE /\ LET id == NewRuleId
               IN  /\ OnUpdate(RulesAfterConvert(conv.rules, id, answer))
                   /\ ruleOp' = [op |-> "append", id |-> id, before |-> <<>>,
                                   afterAdd |-> FALSE]
            /\ toast' = "success"
    /\ UNCHANGED ruleOps
    /\ UNCHANGED <<dataVars, otherVars>>

\* generateRuleFromAI throws (the call failed, or the answer is no JSON)
ConvertFail ==
    /\ conv # Idle
    /\ convResp' = Failure
    /\ conv' = Idle
    /\ toast' = "error"
    /\ UNCHANGED <<rules, ruleOp, ruleOps>>
    /\ UNCHANGED <<dataVars, otherVars>>

----------------------------------------------------------------------------
(* saveDataToFirestore, with its await between getDocs and commit *)

\* Upload above is an upload during which nothing else writes the
\* collection.  Here the handler is taken in its steps: onDrop transforms the
\* rows and saveDataToFirestore awaits getDocs; the batch it then commits
\* deletes the documents that getDocs returned and sets the new rows.

\* the files dropped while overlapping uploads are looked at
ReplaceFiles ==
    [clients |-> {ClientFileB}, workers |-> {WorkerFileA}, tasks |-> {TaskFileA, TaskFileB}]

\* onDrop up to await getDocs(...): the rows have their ids, the snapshot
\* returned is the collection as it is now
OnDrop(entityType, file) ==
    /\ ops + Len(drops) < MaxOps
    /\ Len(drops) < MaxDrops
    /\ drops' = Append(drops, [entityType |-> entityType,
                                seen |-> DocIds(CurrentStore[entityType]),
                                items |-> TransformedData(file),
                                store |-> CurrentStore])
    /\ UNCHANGED <<dataVars, ruleVars>>
    /\ UNCHANGED <<fixes, dataToast, fixDone, priorities, prioritiesDoc, weightOp>>

\* the collection once the batch of call k is committed: the documents the
\* call's getDocs had not returned stay, the new rows are set
BatchResult(k) ==
    LET d == drops[k]
        stay == SelectSeq(CurrentStore[d.entityType],
                          LAMBDA row : Get(row, "id") \notin d.seen)
    IN  stay \o d.items

\* await batch.commit() of call k: the batch is applied as a whole, and the
\* snapshot lists the collection in some order of the ids
SaveCommit(k, p) ==
    /\ k \in 1..Len(drops)
    /\ p \in Orders(Len(BatchResult(k)))
    /\ Len(conts) < MaxPending
    /\ LET S == WithCollection(CurrentStore, drops[k].entityType, Reorder(BatchResult(k), p))
       IN  CanStart(S) /\ Commit(S, drops[k].store)
    /\ drops' = RemoveAt(drops, k)
    /\ UNCHANGED <<fixes, dataToast, fixDone, priorities, prioritiesDoc, weightOp>>

\* getDocs or batch.commit() of call k rejects: nothing is written, and the
\* catch block of onDrop toasts the error
SaveFail(k) ==
    /\ k \in 1..Len(drops)
    /\ drops' = RemoveAt(drops, k)
    /\ dataToast' = "error"
    /\ UNCHANGED <<dataVars, ruleVars>>
    /\ UNCHANGED <<fixes, fixDone, priorities, prioritiesDoc, weightOp>>

----------------------------------------------------------------------------
(* The prioritization tab *)

Profiles == {"balanced", "fulfill", "workload"}

Criteria == {"fulfill", "workload", "priority"}

\* Variant of presets whose workload profile adds to 110.
PresetsHeavy ==
    [balanced |-> [fulfill |-> 50, workload |-> 30, priority |-> 20],
     fulfill  |-> [fulfill |-> 80, workload |-> 10, priority |-> 10],
     workload |-> [fulfill |-> 20, workload |-> 70, priority |-> 20]]

\* applyPreset: presets
Presets ==
    [balanced |-> [fulfill |-> 50, workload |-> 30, priority |-> 20],
     fulfill  |-> [fulfill |-> 80, workload |-> 10, priority |-> 10],
     workload |-> [fulfill |-> 20, workload |-> 70, priority |-> 10]]

\* positions of a slider (min 0, max 100, step 5) that are tried
SliderValues == {0, 5, 35, 100}

NoWeightOp == [op |-> "none"]

\* no priorities document is stored yet
NoDoc == [exists |-> FALSE]

\* onUpdate of the tab: saveConfigToFirestore('priorities', newP) sets the
\* document to newP, whole; the tab keeps the prop of its render until the
\* snapshot listener is called
SavePriorities(newP) ==
    /\ prioritiesDoc' = newP
    /\ UNCHANGED priorities

\* applyPreset(profile)
ApplyPreset(profile) ==
    /\ SavePriorities(Presets[profile])
    /\ weightOp' = [op |-> "preset", profile |-> profile, before |-> prioritiesDoc]
    /\ UNCHANGED <<dataVars, ruleVars>>
    /\ UNCHANGED <<fixes, dataToast, fixDone, drops>>

\* the slider change a weight operation leaves for the next one to remember
LastChange(op) ==
    IF op.op = "slider" THEN [key |-> op.key, value |-> op.value]
    ELSE [key |-> "none", value |-> 0]

\* handleSliderChange(key, [value]): {...priorities, [key]: value[0]}, with
\* the priorities of the render the handler was created in
HandleSliderChange(key, value) ==
    /\ SavePriorities([priorities EXCEPT ![key] = value])
    /\ weightOp' = [op |-> "slider", key |-> key, value |-> value,
                    last |-> LastChange(weightOp)]
    /\ UNCHANGED <<dataVars, ruleVars>>
    /\ UNCHANGED <<fixes, dataToast, fixDone, drops>>

\* onSnapshot(prioritiesDocRef): if (doc.exists()) setPriorities(...), and the
\* tab renders with the stored weights
PrioritiesSnapshot ==
    /\ prioritiesDoc # NoDoc
    /\ priorities # prioritiesDoc
    /\ priorities' = prioritiesDoc
    /\ UNCHANGED <<prioritiesDoc, weightOp>>
    /\ UNCHANGED <<dataVars, ruleVars>>
    /\ UNCHANGED <<fixes, dataToast, fixDone, drops>>

----------------------------------------------------------------------------
(* Specification *)

Init ==
    /\ clients = <<>>
    /\ workers = <<>>
    /\ tasks = <<>>
    /\ errors = <<>>
    /\ aiSuggestions = <<>>
    /\ pubStore = EmptyStore
    /\ passes = <<>>
    /\ conts = <<>>
    /\ ops = 0
    /\ rules = <<>>
    /\ conv = Idle
    /\ toast = "none"
    /\ convResp = Idle
    /\ ruleOp = NoOp
    /\ ruleOps = 0
    /\ fixes = <<>>
    /\ dataToast = "none"
    /\ fixDone = NoFix
    /\ drops = <<>>
    /\ priorities = [fulfill |-> 50, workload |-> 30, priority |-> 20]
    /\ prioritiesDoc = NoDoc
    /\ weightOp = NoWeightOp

Next ==
    \/ \E entityType \in EntityTypes : \E file \in Files[entityType] :
          \E p \in Orders(Len(file)) : Upload(entityType, file, p)
    \/ \E entityType \in EntityTypes : \E e \in CellEdits[entityType] :
          \E rowIndex \in 1..Len(CurrentStore[entityType]) :
              HandleUpdateCell(entityType, rowIndex, e[1], e[2])
    \/ \E k \in 1..MaxPending : AfterSave(k)
    \/ \E k \in 1..MaxPending : \E text \in AdvisoryTexts : GeminiRespond(k, text)
    \/ \E k \in 1..MaxPending : GeminiFail(k)

Spec == Init /\ [][Next]_vars

\* the collections are shared with the earlier version of the tab
NextBoth ==
    \/ Next
    \/ \E entityType \in EntityTypes : \E e \in CellEdits[entityType] :
          \E rowIndex \in 1..Len(CurrentStore[entityType]) :
              HandleUpdateCellEarlier(entityType, rowIndex, e[1], e[2])

SpecBoth == Init /\ [][NextBoth]_vars

\* the files dropped while fixes and natural-language edits are looked at
FixFiles == [clients |-> {}, workers |-> {WorkerFileA}, tasks |-> {TaskFileA}]

\* uploads, and the two collaborator-backed handlers of the tab
NextFix ==
    \/ \E entityType \in EntityTypes : \E file \in FixFiles[entityType] :
          \E p \in Orders(Len(file)) : Upload(entityType, file, p)
    \/ \E k \in 1..Len(conts) : AfterSave(k)
    \/ \E k \in 1..Len(errors) : StartFix(k)
    \/ \E k \in 1..Len(fixes) :
          \E text \in (IF fixes[k].kind = "fix" THEN FixTexts(fixes[k].suggestion) ELSE {}) :
              FixRespond(k, text)
    \/ \E k \in 1..Len(fixes) : FixFail(k)
    \/ StartModify
    \/ \E k \in 1..Len(fixes) : \E answer \in ModifyAnswers : ModifyRespond(k, answer)

SpecFix == Init /\ [][NextFix]_vars

NextRules ==
    \/ AddRule(CO_RUN)
    \/ \E id \in RuleIds(rules) : \E text \in TaskIdTexts : UpdateRuleParams(id, text)
    \/ \E id \in RuleIds(rules) : DeleteRule(id)
    \/ StartConvert
    \/ \E answer \in TranslatorAnswers : ConvertRespond(answer)
    \/ ConvertFail

SpecRules == Init /\ [][NextRules]_vars

\* uploads taken in their steps
NextReplace ==
    \/ \E entityType \in EntityTypes : \E file \in ReplaceFiles[entityType] :
          OnDrop(entityType, file)
    \/ \E k \in 1..Len(drops) : \E p \in Orders(Len(BatchResult(k))) : SaveCommit(k, p)
    \/ \E k \in 1..Len(drops) : SaveFail(k)
    \/ \E k \in 1..Len(conts) : AfterSave(k)
    \/ \E k \in 1..Len(passes) : \E text \in AdvisoryTexts : GeminiRespond(k, text)
    \/ \E k \in 1..Len(passes) : GeminiFail(k)

SpecReplace == Init /\ [][NextReplace]_vars

----------------------------------------------------------------------------
(* EditableTable: the rows shown for a search term *)

UpperChars ==
    <<"A", "B", "C", "D", "E", "F", "G", "H", "I", "J", "K", "L", "M",
      "N", "O", "P", "Q", "R", "S", "T", "U", "V", "W", "X", "Y", "Z">>

LowerChars ==
    <<"a", "b", "c", "d", "e", "f", "g", "h", "i", "j", "k", "l", "m",
      "n", "o", "p", "q", "r", "s", "t", "u", "v", "w", "x", "y", "z">>

\* s.toLowerCase()
LowerText(s) ==
    [k \in 1..Len(s) |->
        IF \E i \in 1..Len(UpperChars) : UpperChars[i] = s[k]
        THEN LowerChars[CHOOSE i \in 1..Len(UpperChars) : UpperChars[i] = s[k]]
        ELSE s[k]]

\* s.includes(part)
Includes(s, part) ==
    \E k \in 0..(Len(s) - Len(part)) : SubSeq(s, k + 1, k + Len(part)) = part

\* the search terms typed: none, and one that is neither a comparison
\* (duration > 5) nor a phase (phase 2)
SearchTerms == {<<>>, <<"T", "2">>, <<"x">>}

\* the filter callback for such a term: some value of the row, as text and in
\* lower case, includes the term in lower case
RowShown(row, searchTerm) ==
    \/ searchTerm = <<>>
    \/ \E f \in DOMAIN row : Includes(LowerText(ToText(row[f])), LowerText(searchTerm))

\* data.filter(...)
FilteredData(data, searchTerm) == SelectSeq(data, LAMBDA row : RowShown(row, searchTerm))

\* onBlur of a cell of the rowIndex-th row of filteredData.map((row, rowIndex)
\* => ...): onUpdate(rowIndex, header, e.target.value, entityType)
EditShownCell(entityType, searchTerm, rowIndex, field, text) ==
    /\ rowIndex \in 1..Len(FilteredData(CurrentStore[entityType], searchTerm))
    /\ HandleUpdateCell(entityType, rowIndex, field, text)

\* the files dropped while the table is searched
TableFiles ==
    [clients |-> {ClientFileA}, workers |-> {WorkerFileA, WorkerFileB},
     tasks |-> {TaskFileA, TaskFileB}]

NextTable ==
    \/ \E entityType \in EntityTypes : \E file \in TableFiles[entityType] :
          \E p \in Orders(Len(file)) : Upload(entityType, file, p)
    \/ \E entityType \in EntityTypes : \E searchTerm \in SearchTerms :
          \E e \in CellEdits[entityType] :
              \E rowIndex \in 1..Len(FilteredData(CurrentStore[entityType], searchTerm)) :
                  EditShownCell(entityType, searchTerm, rowIndex, e[1], e[2])
    \/ \E k \in 1..Len(conts) : AfterSave(k)

SpecTable == Init /\ [][NextTable]_vars

\* the files dropped while fixes of workers that share an id are looked at
SharedIdFiles ==
    [clients |-> {}, workers |-> {WorkerFileA, WorkerFileC}, tasks |-> {TaskFileB}]

NextSharedId ==
    \/ \E entityType \in EntityTypes : \E file \in SharedIdFiles[entityType] :
          \E p \in Orders(Len(file)) : Upload(entityType, file, p)
    \/ \E k \in 1..Len(conts) : AfterSave(k)
    \/ \E k \in 1..Len(errors) : StartFix(k)
    \/ \E k \in 1..Len(fixes) :
          \E text \in (IF fixes[k].kind = "fix" THEN FixTexts(fixes[k].suggestion) ELSE {}) :
              FixRespond(k, text)
    \/ \E k \in 1..Len(fixes) : FixFail(k)

SpecSharedId == Init /\ [][NextSharedId]_vars

\* a collection as it is stored by an upload of file made before the tab
\* was opened
StoredRows(file) ==
    SelectSeq([i \in 1..Len(file) |-> TransformRow(file[i], InternalId(i))], RowKept)

\* The tab opened on collections that hold documents: the first snapshots
\* have set the arrays, and the effect's pass over them has published.
InitStored ==
    /\ clients = <<>>
    /\ workers = StoredRows(WorkerFileA)
    /\ tasks = <<>>
    /\ errors = AllErrors(clients, workers, tasks)
    /\ aiSuggestions = <<>>
    /\ pubStore = CurrentStore
    /\ passes = <<>>
    /\ conts = <<>>
    /\ ops = 0
    /\ rules = <<>>
    /\ conv = Idle
    /\ toast = "none"
    /\ convResp = Idle
    /\ ruleOp = NoOp
    /\ ruleOps = 0
    /\ fixes = <<>>
    /\ dataToast = "none"
    /\ fixDone = NoFix
    /\ drops = <<>>
    /\ priorities = [fulfill |-> 50, workload |-> 30, priority |-> 20]
    /\ prioritiesDoc = NoDoc
    /\ weightOp = NoWeightOp

\* the cell edits made while a fix or a natural-language edit is in flight
StaleEdits ==
    [clients |-> {},
     workers |-> {<<"MaxConcurrent", <<"2">>>>},
     tasks   |-> {<<"Duration", <<"3">>>>}]

\* uploads and cell edits while the collaborator-backed handlers wait
NextStale ==
    \/ \E entityType \in EntityTypes : \E file \in FixFiles[entityType] :
          \E p \in Orders(Len(file)) : Upload(entityType, file, p)
    \/ \E entityType \in EntityTypes : \E e \in StaleEdits[entityType] :
          \E rowIndex \in 1..Len(CurrentStore[entityType]) :
              HandleUpdateCell(entityType, rowIndex, e[1], e[2])
    \/ \E k \in 1..Len(conts) : AfterSave(k)
    \/ \E k \in 1..Len(errors) : StartFix(k)
    \/ \E k \in 1..Len(fixes) :
          \E text \in (IF fixes[k].kind = "fix" THEN FixTexts(fixes[k].suggestion) ELSE {}) :
              FixRespond(k, text)
    \/ \E k \in 1..Len(fixes) : FixFail(k)
    \/ StartModify
    \/ \E k \in 1..Len(fixes) : \E answer \in ModifyAnswers : ModifyRespond(k, answer)

SpecStale == InitStored /\ [][NextStale]_vars

NextWeights ==
    \/ \E profile \in Profiles : ApplyPreset(profile)
    \/ \E key \in Criteria : \E value \in SliderValues : HandleSliderChange(key, value)
    \/ PrioritiesSnapshot

SpecWeights == Init /\ [][NextWeights]_vars

----------------------------------------------------------------------------
(* Properties of the published error list.  errors is what the last
   completed pass published and pubStore the collections it read. *)

IdKey == [clients |-> "ClientID", workers |-> "WorkerID", tasks |-> "TaskID"]

DuplicateText == "Duplicate ID found: "

MissingText == "Required ID is missing."

PriorityText == "Must be between 1-5."

UnknownTaskText == "Unknown TaskID: "

\* the published errors of one kind that the entity at position row of
\* collection entityType received
ErrorsAt(entityType, field, text, row) ==
    SelectSeq(errors, LAMBDA e : /\ e.entityType = entityType
                                 /\ e.field = field
                                 /\ e.message.text = text
                                 /\ e.row = row)

Args(es) == [k \in 1..Len(es) |-> es[k].message.arg]

\* the domain id of the entity at position i, when it has a non-empty one
HasDomainId(entityType, i) ==
    LET e == pubStore[entityType][i]
    IN  IdKey[entityType] \in DOMAIN e /\ e[IdKey[entityType]] # StrV(<<>>)

SameDomainId(entityType, i, j) ==
    /\ HasDomainId(entityType, i)
    /\ HasDomainId(entityType, j)
    /\ pubStore[entityType][i][IdKey[entityType]] = pubStore[entityType][j][IdKey[entityType]]

\* C2: in each collection, an entity with a non-empty domain id has exactly one
\* "Duplicate ID found" error, naming its id, if an earlier entity of the same
\* collection has the same id, and none otherwise; so the entities that share
\* an id get one error less than there are of them, and ids of other
\* collections play no part.
DuplicateDetection ==
    \A entityType \in EntityTypes : \A i \in 1..Len(pubStore[entityType]) :
        HasDomainId(entityType, i) =>
            LET id == pubStore[entityType][i][IdKey[entityType]]
                dups == ErrorsAt(entityType, IdKey[entityType], DuplicateText, i)
                sharing == {j \in 1..Len(pubStore[entityType]) : SameDomainId(entityType, i, j)}
                dupsOfId == SelectSeq(errors, LAMBDA e : /\ e.entityType = entityType
                                                         /\ e.message.text = DuplicateText
                                                         /\ e.id = id)
            IN  /\ Len(dups) = (IF \E j \in 1..(i - 1) : SameDomainId(entityType, i, j)
                                THEN 1 ELSE 0)
                /\ \A k \in 1..Len(dups) : dups[k].id = id /\ dups[k].message.arg = id.v
                /\ Len(dupsOfId) = Cardinality(sharing) - 1

\* three clients share an id and get two duplicate errors, while a task with
\* that same id gets none
DuplicateDetectionWitness ==
    /\ Len(pubStore.clients) = 3
    /\ \A i \in 1..3 : SameDomainId("clients", 1, i)
    /\ Len(ErrorsAt("clients", "ClientID", DuplicateText, 1)) = 0
    /\ Len(ErrorsAt("clients", "ClientID", DuplicateText, 2)) = 1
    /\ Len(ErrorsAt("clients", "ClientID", DuplicateText, 3)) = 1
    /\ Len(pubStore.tasks) = 1
    /\ pubStore.tasks[1].TaskID = pubStore.clients[1].ClientID
    /\ Len(ErrorsAt("tasks", "TaskID", DuplicateText, 1)) = 0

\* the value of a stored PriorityLevel that is a number or the text of one
IsNumeric(x) == x.t = "num" \/ (x.t = "str" /\ x.v # <<>> /\ NumberOfStr(x.v).t = "num")

NumericValue(x) == IF x.t = "num" THEN x.v ELSE NumberOfStr(x.v).v

\* C3: a client whose PriorityLevel is a number outside 1..5 has exactly one
\* PriorityLevel error, and a client whose PriorityLevel is within 1..5 has
\* none.  (The code does not satisfy this: a PriorityLevel of 0 is skipped.)
PriorityRange ==
    \A i \in 1..Len(pubStore.clients) :
        LET c == pubStore.clients[i]
        IN  ("PriorityLevel" \in DOMAIN c /\ IsNumeric(c.PriorityLevel)) =>
                Len(ErrorsAt("clients", "PriorityLevel", PriorityText, i))
                    = (IF NumericValue(c.PriorityLevel) \in 1..5 THEN 0 ELSE 1)

\* C9: every entity whose domain id is missing or empty has exactly one
\* "Required ID is missing." error and no duplicate error, whatever the other
\* entities of its collection are.
MissingId ==
    \A entityType \in EntityTypes : \A i \in 1..Len(pubStore[entityType]) :
        ~HasDomainId(entityType, i) =>
            /\ Len(ErrorsAt(entityType, IdKey[entityType], MissingText, i)) = 1
            /\ Len(ErrorsAt(entityType, IdKey[entityType], DuplicateText, i)) = 0

\* two entities of one collection lack the id, and each has its one error
MissingIdWitness ==
    /\ Len(pubStore.clients) = 2
    /\ \A i \in 1..2 : /\ ~HasDomainId("clients", i)
                       /\ Len(ErrorsAt("clients", "ClientID", MissingText, i)) = 1
                       /\ Len(ErrorsAt("clients", "ClientID", DuplicateText, i)) = 0

\* tid is the TaskID of some task of the store
IsTaskId(tid) ==
    \E j \in 1..Len(pubStore.tasks) :
        "TaskID" \in DOMAIN pubStore.tasks[j] /\ pubStore.tasks[j].TaskID = StrV(tid)

RequestedOf(c) ==
    IF "RequestedTaskIDs" \in DOMAIN c /\ c.RequestedTaskIDs.t = "arr"
    THEN c.RequestedTaskIDs.v ELSE <<>>

\* C10: the "Unknown TaskID" errors of a client are, in order and with
\* repeats, its RequestedTaskIDs entries that are the TaskID of no task; an
\* entry that is the TaskID of a task has none.
UnknownTaskReference ==
    \A i \in 1..Len(pubStore.clients) :
        Args(ErrorsAt("clients", "RequestedTaskIDs", UnknownTaskText, i))
            = SelectSeq(RequestedOf(pubStore.clients[i]), LAMBDA tid : ~IsTaskId(tid))

\* a client requests a task that exists and, twice, one that does not: two
\* errors for the latter, none for the former; the task that exists is not
\* the first of its collection
UnknownTaskReferenceWitness ==
    \E i \in 1..Len(pubStore.clients) :
        LET req == RequestedOf(pubStore.clients[i])
            unknown == Args(ErrorsAt("clients", "RequestedTaskIDs", UnknownTaskText, i))
        IN  /\ Len(req) = 3
            /\ Len(unknown) = 2
            /\ unknown[1] = unknown[2]
            /\ IsTaskId(req[1])
            /\ Len(pubStore.tasks) = 2
            /\ pubStore.tasks[2].TaskID = StrV(req[1])

NoWorkerText == "No worker has the required skill: "

CoverageText == "Required by a task but not provided by any worker, the skill "

SlotsText == "Contains non-numeric values."

ListOf(e, f) == IF f \in DOMAIN e /\ e[f].t = "arr" THEN e[f].v ELSE <<>>

\* some worker of the store lists the skill
Offered(skill) ==
    \E j \in 1..Len(pubStore.workers) :
        \E k \in 1..Len(ListOf(pubStore.workers[j], "Skills")) :
            ListOf(pubStore.workers[j], "Skills")[k] = skill

\* the skills some task requires and no worker offers
UncoveredSkills ==
    {skill \in UNION {Range(ListOf(pubStore.tasks[i], "RequiredSkills")) :
                         i \in 1..Len(pubStore.tasks)} : ~Offered(skill)}

CoverageErrors == ErrorsAt("tasks", "Skill Coverage", CoverageText, 0)

\* C4: the per-task RequiredSkills errors of a task are, in order, its
\* RequiredSkills entries that no worker offers; and the errors with id
\* "Global" and field "Skill Coverage" name each required skill that no worker
\* offers exactly once, however many tasks require it, and no other skill.
SkillCrossReference ==
    /\ \A i \in 1..Len(pubStore.tasks) :
          Args(ErrorsAt("tasks", "RequiredSkills", NoWorkerText, i))
              = SelectSeq(ListOf(pubStore.tasks[i], "RequiredSkills"),
                          LAMBDA skill : ~Offered(skill))
    /\ Range(Args(CoverageErrors)) = UncoveredSkills
    /\ Len(CoverageErrors) = Cardinality(UncoveredSkills)
    /\ \A k \in 1..Len(errors) :
          errors[k].field = "Skill Coverage" =>
              /\ errors[k].entityType = "tasks"
              /\ errors[k].id = GlobalId
              /\ errors[k].message.text = CoverageText
              /\ errors[k].row = 0

\* two tasks require, three times in all, a skill that no worker offers, and
\* one of them a skill that a worker offers: three per-task errors and one
\* Global error
SkillCrossReferenceWitness ==
    /\ Len(pubStore.tasks) = 2
    /\ Len(pubStore.workers) > 0
    /\ \E i \in 1..2 : \E k \in 1..Len(ListOf(pubStore.tasks[i], "RequiredSkills")) :
          Offered(ListOf(pubStore.tasks[i], "RequiredSkills")[k])
    /\ Len(ErrorsAt("tasks", "RequiredSkills", NoWorkerText, 1))
         + Len(ErrorsAt("tasks", "RequiredSkills", NoWorkerText, 2)) = 3
    /\ Len(CoverageErrors) = 1

\* the text without its characters that are not digits
DigitsOf(text) == SelectSeq(text, LAMBDA ch : ch \in DigitChars)

\* C5: a worker has exactly one AvailableSlots error if some element of its
\* AvailableSlots is not the text of a number, and none otherwise; the
\* suggestion of that error, cut at its commas, gives one part per element, in
\* order, each a blank (none for the first) followed by the element's digits;
\* for the elements "1", "x2", "3" it is "1, 2, 3".
SlotsSuggestionRule ==
    \A i \in 1..Len(pubStore.workers) :
        LET slots == ListOf(pubStore.workers[i], "AvailableSlots")
            es == ErrorsAt("workers", "AvailableSlots", SlotsText, i)
            bad == \E k \in 1..Len(slots) : NumberOfStr(slots[k]) = NaNV
        IN  /\ Len(es) = (IF bad THEN 1 ELSE 0)
            /\ bad =>
                  LET parts == Split(es[1].suggestion, ",")
                  IN  /\ Len(parts) = Len(slots)
                      /\ \A k \in 1..Len(slots) :
                            parts[k] = (IF k = 1 THEN <<>> ELSE <<" ">>) \o DigitsOf(slots[k])
                      /\ slots = << <<"1">>, <<"x", "2">>, <<"3">> >>
                           => es[1].suggestion = <<"1", ",", " ", "2", ",", " ", "3">>

\* the worker of the example: slots "1", "x2", "3", one error, suggestion
\* "1, 2, 3"
SlotsSuggestionRuleWitness ==
    \E i \in 1..Len(pubStore.workers) :
        /\ ListOf(pubStore.workers[i], "AvailableSlots") = << <<"1">>, <<"x", "2">>, <<"3">> >>
        /\ Len(ErrorsAt("workers", "AvailableSlots", SlotsText, i)) = 1
        /\ ErrorsAt("workers", "AvailableSlots", SlotsText, i)[1].suggestion
             = <<"1", ",", " ", "2", ",", " ", "3">>

\* the block of the pass that an error belongs to: the duplicate scans of
\* clients, workers and tasks (1, 2, 3), the per-client, per-worker and
\* per-task checks (4, 5, 6), the skill-coverage pass (7)
BlockOf(e) ==
    LET n == CASE e.entityType = "clients" -> 1
               [] e.entityType = "workers" -> 2
               [] e.entityType = "tasks" -> 3
    IN  IF e.field = "Skill Coverage" THEN 7
        ELSE IF e.field = IdKey[e.entityType] THEN n
        ELSE n + 3

\* C8: along the error list the blocks never go back (duplicate scans of
\* clients, workers, tasks; per-client; per-worker; per-task; skill coverage),
\* and within a block the errors follow the store order of their entities.
PassOrder ==
    \A a, b \in 1..Len(errors) :
        a < b => /\ BlockOf(errors[a]) <= BlockOf(errors[b])
                 /\ BlockOf(errors[a]) = BlockOf(errors[b]) => errors[a].row <= errors[b].row

\* a list with errors of a duplicate scan, of the per-client checks, of the
\* per-task checks of two tasks, and of the skill-coverage pass
PassOrderWitness ==
    /\ Cardinality({BlockOf(errors[k]) : k \in 1..Len(errors)}) >= 4
    /\ \E a, b \in 1..Len(errors) :
          /\ BlockOf(errors[a]) = 4 /\ BlockOf(errors[b]) = 1
    /\ \E a, b \in 1..Len(errors) :
          /\ BlockOf(errors[a]) = BlockOf(errors[b])
          /\ errors[a].row < errors[b].row

\* C1: a pass that publishes for the collections the pass before it published
\* for leaves the error list and the suggestion list as they were.  (The code
\* does not satisfy this: the suggestion list is what the collaborator
\* answers, or empty when the call fails.)
PassIdempotent ==
    [][pubStore' = pubStore => (errors' = errors /\ aiSuggestions' = aiSuggestions)]_vars

----------------------------------------------------------------------------
(* Properties of the rule registry *)

\* seq without its k-th element
Without(seq, k) == [i \in 1..(Len(seq) - 1) |-> IF i < k THEN seq[i] ELSE seq[i + 1]]

LacksField(answer) == "type" \notin DOMAIN answer \/ "params" \notin DOMAIN answer

\* C7: when a translation ends with a failure of the translator or with an
\* answer that lacks type or params, the registry is as it was and an error is
\* reported; the registry changes only when the answer has both fields.
ShapeRejection ==
    [][(conv # Idle /\ conv' = Idle) =>
          /\ (convResp' = Failure \/ LacksField(convResp')) =>
                (rules' = rules /\ toast' = "error")
          /\ rules' # rules => (convResp' # Failure /\ ~LacksField(convResp'))]_vars

\* an answer with type and without params was rejected, with rules in the
\* registry
ShapeRejectionWitness ==
    /\ convResp # Idle
    /\ convResp # Failure
    /\ "type" \in DOMAIN convResp
    /\ "params" \notin DOMAIN convResp
    /\ toast = "error"
    /\ rules # <<>>

----------------------------------------------------------------------------
(* Lower bounds, phases, advisory suggestions *)

NegativeText == "Cannot be negative."

AtLeastOneText == "Must be at least 1."

\* the entity at position i of the collection has, for a field that holds a
\* number or the text of one, one error of the given text if the number is
\* below bound, and none otherwise
BoundChecked(entityType, i, field, text, bound) ==
    LET e == pubStore[entityType][i]
    IN  (field \in DOMAIN e /\ IsNumeric(e[field])) =>
            Len(ErrorsAt(entityType, field, text, i))
                = (IF NumericValue(e[field]) < bound THEN 1 ELSE 0)

\* C11: a worker whose MaxLoadPerPhase is below 0 has one MaxLoadPerPhase
\* error, a worker whose MaxConcurrent is below 1 has one MaxConcurrent error,
\* a task whose Duration is below 1 has one Duration error, and values at or
\* above the bound have none.  (The code does not satisfy this: a
\* MaxConcurrent or a Duration of 0 is skipped.)
LowerBounds ==
    /\ \A i \in 1..Len(pubStore.workers) :
          /\ BoundChecked("workers", i, "MaxLoadPerPhase", NegativeText, 0)
          /\ BoundChecked("workers", i, "MaxConcurrent", AtLeastOneText, 1)
    /\ \A i \in 1..Len(pubStore.tasks) :
          BoundChecked("tasks", i, "Duration", AtLeastOneText, 1)

PhasesText == "Invalid range format. Use \"start-end\"."

\* the text is digits, one hyphen, digits
IsStartEnd(text) ==
    /\ Len(text) >= 3
    /\ \A k \in 1..Len(text) : text[k] \in DigitChars \cup {"-"}
    /\ Cardinality({k \in 1..Len(text) : text[k] = "-"}) = 1
    /\ text[1] # "-"
    /\ text[Len(text)] # "-"

\* elements a PreferredPhases list can hold by its type: integers and texts
PhaseSamples ==
    {NumV(n) : n \in 0..3}
    \cup {StrV(text) : text \in {<<"1", "-", "2">>, <<"1">>, <<"1", "-">>, <<"-", "2">>,
                                 <<"1", "-", "2", "-", "3">>, <<"a", "-", "b">>, <<>>}}

\* C12: a task has exactly one PreferredPhases error if some element of its
\* PreferredPhases is a text that is not digits-hyphen-digits, and none
\* otherwise; the test of one element rejects exactly the texts that are not
\* digits-hyphen-digits, and never an integer.
PhasesFormat ==
    /\ \A i \in 1..Len(pubStore.tasks) :
          LET phases == ListOf(pubStore.tasks[i], "PreferredPhases")
          IN  Len(ErrorsAt("tasks", "PreferredPhases", PhasesText, i))
                  = (IF \E k \in 1..Len(phases) : ~IsStartEnd(phases[k]) THEN 1 ELSE 0)
    /\ \A p \in PhaseSamples :
          PhaseElementBad(p) <=> (p.t = "str" /\ ~IsStartEnd(p.v))

\* one task with a well-formed range and no error, next to one with two
\* malformed elements and one error
PhasesFormatWitness ==
    \E i, j \in 1..Len(pubStore.tasks) :
        /\ ListOf(pubStore.tasks[i], "PreferredPhases") = << <<"1", "-", "2">> >>
        /\ Len(ErrorsAt("tasks", "PreferredPhases", PhasesText, i)) = 0
        /\ Len(ListOf(pubStore.tasks[j], "PreferredPhases")) = 2
        /\ Len(ErrorsAt("tasks", "PreferredPhases", PhasesText, j)) = 1

\* the clients of the store with PriorityLevel 1 and more than 5 RequestedTaskIDs
AnomalousClients ==
    {i \in 1..Len(pubStore.clients) :
        LET c == pubStore.clients[i]
        IN  /\ "PriorityLevel" \in DOMAIN c
            /\ IsNumeric(c.PriorityLevel)
            /\ NumericValue(c.PriorityLevel) = 1
            /\ Len(RequestedOf(c)) > AdvisoryThreshold}

\* C13: the suggestion list holds a suggestion when some client has
\* PriorityLevel 1 and more than 5 RequestedTaskIDs, and none when no client
\* has.  (The code does not satisfy this: the list holds the lines of the
\* collaborator's answer, and nothing when the call fails.)
AdvisoryPerClient == (aiSuggestions # <<>>) <=> (AnomalousClients # {})

\* C14: no store makes the validation pass raise: whatever the collections
\* hold, the pass runs to its end.  (The code does not satisfy this: on a list
\* field that holds a text, the pass calls a list method the text does not
\* have, and ends without publishing.)
NeverRaises == ~PassThrows(clients, workers, tasks)

----------------------------------------------------------------------------
(* Properties of fixes and natural-language edits *)

\* some entity of the collection has the domain id
Held(store, entityType, id) ==
    \E i \in 1..Len(store[entityType]) :
        /\ IdKey[entityType] \in DOMAIN store[entityType][i]
        /\ store[entityType][i][IdKey[entityType]] = id

\* the collection that the entity word of an answer names
CollectionNamed(word) ==
    CASE word \in {"task", "TASK", "tasks"} -> "tasks"
      [] word \in {"Worker"} -> "workers"

AnswerComplete(answer) == {"entityType", "id", "field", "value"} \subseteq DOMAIN answer

\* the call d ended as a failure: the collaborator failed, its answer lacks
\* one of the four fields, or no entity of the named collection, as the call
\* found it, has the target id
FailedCall(d) ==
    \/ d.answer = Failure
    \/ /\ d.answer # Failure
       /\ d.kind = "fix"
       /\ ~Held(d.req.store, d.req.entityType, d.req.id)
    \/ /\ d.answer # Failure
       /\ d.kind = "nl"
       /\ \/ ~AnswerComplete(d.answer)
          \/ /\ AnswerComplete(d.answer)
             /\ ~Held(d.req.store, CollectionNamed(d.answer.entityType), d.answer.id)

CoercionCases ==
    { << <<" ", "a", ",", " ", ",", "b", " ">>, << <<"a">>, <<"b">> >>,
         <<"a", ",", " ", "b">>, 0 >>,
      << <<"1", ",", " ", "2", ",", "3">>, << <<"1">>, <<"2">>, <<"3">> >>,
         <<"1", ",", " ", "2", ",", " ", "3">>, 1 >>,
      << <<>>, <<>>, <<>>, 0 >>,
      << <<"-", "4", "x">>, << <<"-", "4", "x">> >>, <<"-", "4", "x">>, -4 >>,
      << <<"x", "7">>, << <<"x", "7">> >>, <<"x", "7">>, 0 >>,
      << <<"1", "2">>, << <<"1", "2">> >>, <<"1", "2">>, 12 >> }

CoercionFields == {"AvailableSlots", "Skills", "MaxConcurrent", "Duration", "WorkerGroup"}

\* the entities of the collections, and one whose list field holds a text
CoercionItems ==
    {clients[i] : i \in 1..Len(clients)} \cup {workers[i] : i \in 1..Len(workers)}
    \cup {tasks[i] : i \in 1..Len(tasks)}
    \cup {[id |-> InternalId(0), WorkerID |-> StrV(W1),
           AvailableSlots |-> StrV(<<"1", ",", " ", "x">>)]}

PublishedWithoutWaiting ==
    \A k \in 1..Len(passes) :
        passes[k] = CurrentStore =>
            /\ pubStore = CurrentStore
            /\ errors = AllErrors(clients, workers, tasks)

\* C18: once every validation pass that was started has run to its end (no
\* handler is still to call one, none waits for the collaborator), the
\* published error list is the result of validating the current store.
\* (The code does not satisfy this: after its save a handler validates the
\* collections of the render it was created in, and that pass publishes after
\* the pass the effect ran on the new collections.)
RevalidatedAfterMutation ==
    (conts = <<>> /\ passes = <<>>) =>
        /\ pubStore = CurrentStore
        /\ errors = AllErrors(clients, workers, tasks)

RowSet(rows) == {rows[i] : i \in 1..Len(rows)}

\* C19: a bulk replace is all-or-nothing: when a saveDataToFirestore call
\* ends, the collection holds exactly the call's rows, every entity stored
\* before removed, or it holds what it held before.  (The code does not
\* satisfy this: the batch deletes the documents that getDocs returned, and a
\* document written between getDocs and commit stays beside the new rows.)
ReplaceAllOrNothing ==
    [][\A k \in 1..Len(drops) :
          drops' = RemoveAt(drops, k) =>
              LET before == CurrentStore[drops[k].entityType]
                  after == CurrentStore'[drops[k].entityType]
              IN  \/ /\ RowSet(after) = RowSet(drops[k].items)
                     /\ Len(after) = Len(drops[k].items)
                  \/ after = before]_vars

WeightSum(w) == w.fulfill + w.workload + w.priority

\* C20: after applyPreset the stored weights are exactly those of the named profile,
\* balanced 50/30/20, fulfill 80/10/10, workload 20/70/10, whatever they were
\* before; they add to 100 and each lies within 0..100.
PresetsExact ==
    weightOp.op = "preset" =>
        /\ weightOp.profile = "balanced" =>
              prioritiesDoc = [fulfill |-> 50, workload |-> 30, priority |-> 20]
        /\ weightOp.profile = "fulfill" =>
              prioritiesDoc = [fulfill |-> 80, workload |-> 10, priority |-> 10]
        /\ weightOp.profile = "workload" =>
              prioritiesDoc = [fulfill |-> 20, workload |-> 70, priority |-> 10]
        /\ DOMAIN prioritiesDoc = {"fulfill", "workload", "priority"}
        /\ WeightSum(prioritiesDoc) = 100
        /\ \A key \in DOMAIN prioritiesDoc : prioritiesDoc[key] \in 0..100

\* the workload preset was applied to weights the sliders had moved away from
\* every preset, to a sum other than 100
PresetsExactWitness ==
    /\ weightOp.op = "preset"
    /\ weightOp.profile = "workload"
    /\ weightOp.before # NoDoc
    /\ WeightSum(weightOp.before) # 100
    /\ \A key \in DOMAIN prioritiesDoc : weightOp.before[key] # prioritiesDoc[key]

\* C21: a set stores the submitted vector whole, and two weight changes made
\* one after the other both show in the stored vector: after a slider change
\* the stored weight of its key is its value, and when the change before it
\* moved another slider, the stored weight of that key is still that value.
\* (The code does not satisfy the second part: handleSliderChange fills the
\* other keys from the prop of its render, and a change made before the
\* snapshot of the previous one has rendered stores the older weight.)
WeightChangesKept ==
    weightOp.op = "slider" =>
        /\ DOMAIN prioritiesDoc = {"fulfill", "workload", "priority"}
        /\ prioritiesDoc[weightOp.key] = weightOp.value
        /\ (weightOp.last.key \notin {"none", weightOp.key}) =>
              prioritiesDoc[weightOp.last.key] = weightOp.last.value

\* C22: every rule of the registry has type CO_RUN, EXCLUSION or SEQUENTIAL
\* and params that hold a taskIds list, whether added by the button or
\* accepted from the translator.  (The code does not satisfy this: an answer
\* is accepted when its type and params are truthy, whatever they hold.)
RuleTypeInvariant ==
    \A i \in 1..Len(rules) :
        /\ rules[i].type \in CanonicalTypes
        /\ "taskIds" \in DOMAIN rules[i].params

\* C23: every published error has entityType clients, workers or tasks and an
\* id that is the domain id of an entity of that collection or "Global"; no
\* error's id is an internal id.  (The code does not satisfy this: the error
\* for a missing domain id carries item.id, the internal id of the entity.)
ErrorIdentity ==
    \A k \in 1..Len(errors) :
        LET e == errors[k]
        IN  /\ e.entityType \in EntityTypes
            /\ \/ e.id = GlobalId
               \/ \E i \in 1..Len(pubStore[e.entityType]) :
                     /\ HasDomainId(e.entityType, i)
                     /\ pubStore[e.entityType][i][IdKey[e.entityType]] = e.id
            /\ e.id \notin IdsOf(pubStore)

\* a step in which a cell edit, a fix or a natural-language edit saves its item
UpsertStep ==
    \/ Len(fixes') < Len(fixes) /\ dataToast' = "success"
    \/ \E entityType \in EntityTypes : \E e \in StaleEdits[entityType] :
          \E rowIndex \in 1..Len(CurrentStore[entityType]) :
              HandleUpdateCell(entityType, rowIndex, e[1], e[2])

\* rows a and b are the same entity, equal except perhaps in field
SameButField(a, b, field) ==
    /\ Get(a, "id") = Get(b, "id")
    /\ DOMAIN a \cup {field} = DOMAIN b \cup {field}
    /\ \A f \in (DOMAIN a \cap DOMAIN b) \ {field} : a[f] = b[f]

AllFields == UNION {DOMAIN row : row \in RowSet(clients) \cup RowSet(workers) \cup RowSet(tasks)
                                          \cup RowSet(clients') \cup RowSet(workers')
                                          \cup RowSet(tasks')}

\* C24: a single-entity upsert (cell edit, fix, natural-language edit) keeps
\* the entities and their internal ids, and changes one field of one entity:
\* some collection, row and field are such that every other row and every
\* other field is as before.  (The code does not satisfy this: the handler
\* saves the item of the render it was created in, whole; an upload or an
\* edit made while it waited is undone for that entity.)
UpsertFrame ==
    [][UpsertStep =>
          \E entityType \in EntityTypes :
              LET before == CurrentStore[entityType]
                  after == CurrentStore'[entityType]
              IN  /\ \A other \in EntityTypes \ {entityType} :
                        CurrentStore'[other] = CurrentStore[other]
                  /\ Len(after) = Len(before)
                  /\ \E i \in 1..Len(before) : \E field \in AllFields \ {"id"} :
                        /\ SameButField(before[i], after[i], field)
                        /\ \A j \in (1..Len(before)) \ {i} : after[j] = before[j]]_vars

\* C25: a cell edit changes the entity shown in the edited row: for each
\* search term, when a cell of the n-th row shown is edited, the entity shown
\* there afterwards holds the coerced text in that field, and every other
\* entity of the collection is as before.  (The code does not satisfy this:
\* the table passes the index within the rows shown, and handleUpdateCell
\* takes the row of the whole collection at that index.)
ShownRowEdited ==
    [][\A entityType \in EntityTypes : \A searchTerm \in SearchTerms :
          \A e \in CellEdits[entityType] :
              \A n \in 1..Len(FilteredData(CurrentStore[entityType], searchTerm)) :
                  EditShownCell(entityType, searchTerm, n, e[1], e[2]) =>
                      LET before == CurrentStore[entityType]
                          after == CurrentStore'[entityType]
                          shown == FilteredData(before, searchTerm)[n]
                      IN  /\ \A i \in 1..Len(before) :
                                before[i].id # shown.id =>
                                    \E j \in 1..Len(after) : after[j] = before[i]
                          /\ \E j \in 1..Len(after) :
                                /\ after[j].id = shown.id
                                /\ after[j][e[1]] = CoerceCell(shown, e[1], e[2])]_vars

\* C26: when an accepted translator result is appended, the registry changes
\* only by the one new rule: it is the registry as it was just before, with
\* the new rule at its end, so that every rule added while the request was in
\* flight is kept and no rule deleted meanwhile comes back.  (The code does
\* not satisfy this: the result is appended to the rules of the render in
\* which the request was started.)
NoLostRegistryUpdates ==
    [][(ruleOp' # ruleOp /\ ruleOp'.op = "append") =>
          /\ Len(rules') = Len(rules) + 1
          /\ SubSeq(rules', 1, Len(rules)) = rules
          /\ rules'[Len(rules')].id = ruleOp'.id]_vars

\* C27: applying the suggestion of an AvailableSlots error removes the error:
\* when the fix is saved with the collaborator's answer equal to the
\* suggestion, the pass over the new collections publishes no AvailableSlots
\* error under that WorkerID.  (The code does not satisfy this when workers
\* share the id: the fix is saved to the first worker that has the id, and
\* the error of another one stays.)
FixRemovesError ==
    [][(/\ Len(fixes') < Len(fixes)
        /\ dataToast' = "success"
        /\ fixDone'.kind = "fix"
        /\ fixDone'.req.field = "AvailableSlots"
        /\ fixDone'.answer = StrV(fixDone'.req.suggestion)) =>
          /\ pubStore' = CurrentStore'
          /\ \A k \in 1..Len(errors') :
                ~ /\ errors'[k].entityType = "workers"
                  /\ errors'[k].field = "AvailableSlots"
                  /\ errors'[k].id = fixDone'.req.id]_vars

\* the integers tried in a numeric field
NumericSamples == (0 - 1)..6

\* the collections with field f of the i-th entity of a collection set to v
WithValue(entityType, i, f, v) ==
    WithCollection(CurrentStore, entityType,
                   [CurrentStore[entityType] EXCEPT ![i] = SetField(@, f, v)])

\* C28: validation does not depend on how a numeric value entered the
\* collections: for every entity, numeric field and integer n, the entity with
\* the field as an upload stores n (the number) and as a cell edit, fix or
\* natural-language edit stores it (its decimal text) gets the same errors,
\* and counts the same for the advisory suggestions.  (The code does not
\* satisfy this: the number 0 is skipped by the range checks and the text "0"
\* is not, and PriorityLevel === 1 holds of the number only.)
EntryIndependent ==
    \A entityType \in EntityTypes : \A i \in 1..Len(CurrentStore[entityType]) :
        \A f \in NumericFields : \A n \in NumericSamples :
            LET up == WithValue(entityType, i, f, NumV(n))
                ed == WithValue(entityType, i, f, StrV(IntToStr(n)))
            IN  /\ AllErrors(up.clients, up.workers, up.tasks)
                     = AllErrors(ed.clients, ed.workers, ed.tasks)
                /\ Len(HighPriorityClients(up.clients)) = Len(HighPriorityClients(ed.clients))

\* C29: a cell edit, fix or natural-language edit started before a bulk
\* replace does not bring back an entity the replace deleted: the step that
\* saves it creates no document, so that a replaced collection holds only
\* entities of the uploaded file.  (The code does not satisfy this: the
\* handler saves the item it found in the collections of its render under the
\* item's id, and setDoc creates the document when the replace has deleted it.)
ReplaceNotUndone ==
    [][UpsertStep =>
          \A entityType \in EntityTypes :
              DocIds(CurrentStore'[entityType]) \subseteq DocIds(CurrentStore[entityType])]_vars

\* the text of an integer
IsIntegerText(text) == text # <<>> /\ \A k \in 1..Len(text) : text[k] \in DigitChars

\* C30: a task uploaded with a PreferredPhases column that lists only
\* integers and well-formed ranges has no PreferredPhases error.  (The code
\* does not satisfy this: the upload stores each element as a text, and the
\* check reports every text that is not a range, the text of an integer
\* included.)
UploadedPhasesValid ==
    \A i \in 1..Len(pubStore.tasks) :
        LET phases == ListOf(pubStore.tasks[i], "PreferredPhases")
        IN  (\A k \in 1..Len(phases) : IsIntegerText(phases[k]) \/ IsStartEnd(phases[k]))
                => ErrorsAt("tasks", "PreferredPhases", PhasesText, i) = <<>>

============================================================================
